---- MODULE Spec2Model ----
(***************************************************************************)
(* A model of extract-llms-docs:                                           *)
(*   - the llms.txt discovery orchestrator (lib/url-discovery:             *)
(*     parseUrl, generateUrlPatterns, checkWellKnownPaths,                 *)
(*     checkForLlmsTxt, discoverLlmsTxt), specification Spec / LiveSpec;   *)
(*   - the install.md generator and parser (generateInstallMd,             *)
(*     validateInstallMd, parseInstallMd, isValidInstallMd,                *)
(*     extractTodoItems), specification InstallSpec.                       *)
(*                                                                         *)
(* Strings are sequences: a URL is a sequence of tokens ("https:", "/",    *)
(* a host label, ".", a path segment), an install.md text is a sequence of *)
(* one-character strings.  Regular expressions are modelled by operators   *)
(* that scan those sequences the way the regex engine does.                *)
(***************************************************************************)
EXTENDS Naturals, Integers, Sequences, FiniteSets, TLC

VARIABLES
    \* ---- discoverLlmsTxt ------------------------------------------------
    inputUrl,           \* the inputUrl argument (token sequence)
    strategies,         \* options.strategies
    timeoutMs,          \* options.timeoutMs
    elapsed,            \* Date.now() - startTime
    pc,                 \* where the orchestrator is suspended
    wkQueue,            \* checkWellKnownPaths: test URLs not yet fetched
    tasks,              \* discoveryPromises: per strategy, its promise state
    allDiscoveredUrls,  \* the merged candidate list
    sitemapQueue,       \* phase 3: sitemap URLs not yet parsed
    uniqueUrls,         \* the deduplicated, sorted, capped candidate list
    batchIdx,           \* the loop variable i of the batch loop
    batch,              \* the batch whose checks are in flight
    checks,             \* per job of the batch: its check, pending or settled
    scannedUrls,        \* scannedUrls
    result,             \* the value the call returned (or how it ended)
    \* ---- observation of the call (not program state) --------------------
    started,            \* strategy functions invoked so far
    requests,           \* who issued a fetch that reached the network
    checksIssued,       \* URLs handed to checkForLlmsTxt, in order
    wkFound,            \* checkWellKnownPaths returned found: true
    \* ---- install.md generator / parser ----------------------------------
    ipc,                \* position of the install.md scenario
    genData,            \* InstallMdGeneratorData given to generateInstallMd
    docLines,           \* the lines the input text was assembled from
    installMd,          \* the install.md text (character sequence)
    parsed,             \* parseInstallMd(installMd)
    quick,              \* isValidInstallMd(installMd)
    \* ---- utility functions called on their own ---------------------------
    fn,                 \* the function under call
    fnArg,              \* its argument
    fnOut,              \* its return value
    \* ---- extraction (api/extract POST, mcp-server extractDocumentation) ---
    xpc,                \* position of the extraction
    impl,               \* which extractor runs
    tryIdx,             \* index of the next URL of the current fetch loop
    requested,          \* the fetches made so far, in order
    served,             \* the lines of the text the server answered with
    rawContent,         \* content (<<>> is null or the empty string)
    sourceUrl,          \* sourceUrl
    linked,             \* linkedLlmsTxtData
    documents,          \* documents
    xresult,            \* how the extraction ended
    \* ---- parseSitemap called on its own ---------------------------------
    smWeb,              \* what each sitemap URL answers with
    smStack,            \* the activations of parseSitemap, innermost last
    smFetched,          \* the fetches made so far: URL and depth
    smResult,           \* what the outermost call returned
    \* ---- fetchAllLinkedLlmsTxt called on its own ------------------------
    lfFiles,            \* files
    lfI,                \* the loop variable i
    lfBatch,            \* the fetches of the current batch, pending or settled
    lfResults,          \* results
    lfDocuments,        \* the documents the handler derives from the results
    lfpc,               \* position of the call
    \* ---- GET /api/sites/health ------------------------------------------
    hNow,               \* Date.now(), in ticks
    lastHealthReport,   \* lastHealthReport
    lastHealthCheckTime,\* lastHealthCheckTime
    hRequests,          \* the GET requests received, in order of arrival
    hStarted,           \* the full health checks started: by which request, when
    \* ---- /api/sites/verify ----------------------------------------------
    vNow,               \* Date.now(), in ticks
    verificationCache,  \* verificationCache
    vJobs,              \* the targets looked up so far, in order
    vFetched,           \* the jobs whose target was verified over the network
    \* ---- useSiteVerification --------------------------------------------
    hookState,          \* state of useSiteVerification
    clientCache,        \* clientCache entry of the site
    abortControllerRef, \* abortControllerRef.current: the request it belongs to
    hkRequests          \* the network verifications started, in order

discVars == <<inputUrl, strategies, timeoutMs, elapsed, pc, wkQueue, tasks,
              allDiscoveredUrls, sitemapQueue, uniqueUrls, batchIdx, batch,
              checks, scannedUrls, result, started, requests, checksIssued,
              wkFound>>
instVars == <<ipc, genData, docLines, installMd, parsed, quick>>
utilVars == <<fn, fnArg, fnOut>>
extVars == <<xpc, impl, tryIdx, requested, served, rawContent, sourceUrl,
             linked, documents, xresult>>
smVars == <<smWeb, smStack, smFetched, smResult>>
lfVars == <<lfFiles, lfI, lfBatch, lfResults, lfDocuments, lfpc>>
healthVars == <<hNow, lastHealthReport, lastHealthCheckTime, hRequests, hStarted>>
verifyVars == <<vNow, verificationCache, vJobs, vFetched>>
hookVars == <<hookState, clientCache, abortControllerRef, hkRequests>>
restVars == <<smVars, lfVars, healthVars, verifyVars, hookVars>>
smOthers == <<discVars, instVars, utilVars, extVars, lfVars, healthVars, verifyVars, hookVars>>
lfOthers == <<discVars, instVars, utilVars, extVars, smVars, healthVars, verifyVars, hookVars>>
healthOthers == <<discVars, instVars, utilVars, extVars, smVars, lfVars, verifyVars, hookVars>>
verifyOthers == <<discVars, instVars, utilVars, extVars, smVars, lfVars, healthVars, hookVars>>
hookOthers == <<discVars, instVars, utilVars, extVars, smVars, lfVars, healthVars, verifyVars>>
otherVars == <<utilVars, extVars, restVars>>
vars == <<inputUrl, strategies, timeoutMs, elapsed, pc, wkQueue, tasks,
          allDiscoveredUrls, sitemapQueue, uniqueUrls, batchIdx, batch,
          checks, scannedUrls, result, started, requests, checksIssued, wkFound,
          ipc, genData, docLines, installMd, parsed, quick,
          fn, fnArg, fnOut,
          xpc, impl, tryIdx, requested, served, rawContent, sourceUrl,
          linked, documents, xresult,
          smWeb, smStack, smFetched, smResult,
          lfFiles, lfI, lfBatch, lfResults, lfDocuments, lfpc,
          hNow, lastHealthReport, lastHealthCheckTime, hRequests, hStarted,
          vNow, verificationCache, vJobs, vFetched,
          hookState, clientCache, abortControllerRef, hkRequests>>

(***************************************************************************)
(* Bounds of the model.                                                    *)
(***************************************************************************)
\* The clock stops advancing here (Date.now() is unbounded).
MaxTime == 2
\* CONFIG.batchSize is 8 and CONFIG.maxUrlsToScan is 100 in the source; the
\* model runs the same loop with a smaller batch and a smaller cap.
BatchSize == 2
MaxUrlsToScan == 3

\* slice(0, 3) of the sitemap URLs (phase 3).
MaxSitemaps == 3
\* Priorities written in generateUrlPatterns.
PrioUserSubdomain == 0
PrioMainDomain == 5
PrioWwwDomain == 6
PrioSubdomainBase == 10
PrioPathBase == 50

(***************************************************************************)
(* Generic sequence helpers.                                               *)
(***************************************************************************)
Range(s) == {s[k] : k \in 1..Len(s)}

\* A call by value, as JavaScript makes it: the argument is evaluated once
\* and F runs on the value.
Call(F(_), arg) == CHOOSE r \in {F(x) : x \in {arg}} : TRUE

Min(a, b) == IF a < b THEN a ELSE b

MinOf(S) == CHOOSE x \in S : \A y \in S : x <= y
MaxOf(S) == CHOOSE x \in S : \A y \in S : x >= y

\* s.slice(from, to) with 0-based from (inclusive) and to (exclusive).
Slice(s, from, to) == SubSeq(s, from + 1, Min(to, Len(s)))

RECURSIVE Flatten(_)
Flatten(ss) == IF ss = <<>> THEN <<>> ELSE Head(ss) \o Flatten(Tail(ss))

\* Array.from(new Set(s)): first occurrences, in order.
RECURSIVE UniqueSeq(_)
UniqueSeq(s) ==
    IF s = <<>> THEN <<>>
    ELSE Call(LAMBDA r : IF s[Len(s)] \in Range(r) THEN r ELSE Append(r, s[Len(s)]),
              UniqueSeq(SubSeq(s, 1, Len(s) - 1)))

(***************************************************************************)
(* URLs as token sequences.                                                *)
(***************************************************************************)
\* A token that cannot be part of a host name (it holds a space).
BadHostTokens == {"not a url"}

\* String.prototype.toLowerCase on a token.
LowerToken(t) ==
    CASE t = "Example" -> "example"
      [] t = "Docs" -> "docs"
      [] OTHER -> t

toLowerCase(u) == [k \in 1..Len(u) |-> LowerToken(u[k])]

\* u.replace(/\/$/, ''): one trailing slash removed.
StripTrailingSlash(u) ==
    IF u # <<>> /\ u[Len(u)] = "/" THEN SubSeq(u, 1, Len(u) - 1) ELSE u

\* String.prototype.trim.
RECURSIVE trim(_)
trim(u) ==
    IF u # <<>> /\ u[1] = " " THEN trim(Tail(u))
    ELSE IF u # <<>> /\ u[Len(u)] = " " THEN trim(SubSeq(u, 1, Len(u) - 1))
    ELSE u

\* s.startsWith('http://') || s.startsWith('https://')
StartsWithHttp(u) ==
    Len(u) >= 3 /\ u[1] \in {"http:", "https:"} /\ u[2] = "/" /\ u[3] = "/"

RECURSIVE DropSlashes(_)
DropSlashes(u) == IF u # <<>> /\ u[1] = "/" THEN DropSlashes(Tail(u)) ELSE u

RECURSIVE TakeHost(_)
TakeHost(u) ==
    IF u = <<>> \/ u[1] = "/" THEN <<>> ELSE <<u[1]>> \o TakeHost(Tail(u))

\* new URL(u) of the platform: a special scheme, any number of slashes, then
\* a non-empty host without forbidden code points; the host is lowercased.
\* ok = FALSE stands for the TypeError it throws.
UrlOfHost(scheme, host) ==
    IF host = <<>> \/ Range(host) \cap BadHostTokens # {}
    THEN [ok |-> FALSE]
    ELSE [ok |-> TRUE, protocol |-> scheme, hostname |-> toLowerCase(host)]

NewURL(u) ==
    IF u = <<>> \/ u[1] \notin {"http:", "https:"}
    THEN [ok |-> FALSE]
    ELSE Call(LAMBDA host : UrlOfHost(u[1], host),
              Call(TakeHost, DropSlashes(Tail(u))))

\* hostname.split('.')
Labels(host) == SelectSeq(host, LAMBDA t : t # ".")

\* parts.join('.')
RECURSIVE JoinDots(_)
JoinDots(ls) ==
    IF ls = <<>> THEN <<>>
    ELSE IF Len(ls) = 1 THEN ls
    ELSE <<ls[1], ".">> \o JoinDots(Tail(ls))

compoundTlds ==
    { <<"co", "uk">>, <<"com", "au">>, <<"co", "nz">>, <<"co", "jp">>,
      <<"com", "br">>, <<"co", "in">>, <<"org", "uk">>, <<"net", "au">> }

\* parseUrl, from the split of the host name on.  subdomain <<>> is null.
ParseParts(protocol, hostname, parts, n, compound, sub) ==
    [ok |-> TRUE,
     protocol |-> protocol,
     hostname |-> hostname,
     baseDomain |-> IF compound THEN parts[n - 2]
                    ELSE IF n >= 2 THEN parts[n - 1]
                    ELSE parts[1],
     tld |-> IF compound THEN <<parts[n - 1], ".", parts[n]>>
             ELSE IF n >= 2 THEN <<parts[n]>>
             ELSE <<"com">>,
     fullDomain |-> IF compound THEN <<parts[n - 2], ".", parts[n - 1], ".", parts[n]>>
                    ELSE IF n >= 2 THEN <<parts[n - 1], ".", parts[n]>>
                    ELSE <<parts[1], ".", "com">>,
     hasSubdomain |-> sub # <<>> /\ sub # <<"www">>,
     subdomain |-> IF sub = <<"www">> THEN <<>> ELSE sub]

\* A split that knows no compound TLD.
NeverCompound(parts, n) == FALSE

\* Whether the last two labels are a compound TLD below a third label.
IsCompound(parts, n) ==
    n >= 3 /\ <<parts[n - 1], parts[n]>> \in compoundTlds

\* The labels before the base domain, joined: k labels belong to the
\* registrable domain.
SubdomainOf(parts, n, k) ==
    IF n > k THEN JoinDots(SubSeq(parts, 1, n - k)) ELSE <<>>

ParseLabels(protocol, hostname, parts, n, compound) ==
    ParseParts(protocol, hostname, parts, n, compound,
               IF compound THEN SubdomainOf(parts, n, 3)
               ELSE IF n >= 2 THEN SubdomainOf(parts, n, 2)
               ELSE <<>>)

ParseHost(protocol, hostname, parts) ==
    ParseLabels(protocol, hostname, parts, Len(parts), IsCompound(parts, Len(parts)))

ParseUrlObj(urlObj) ==
    IF ~urlObj.ok THEN [ok |-> FALSE]
    ELSE ParseHost(urlObj.protocol, urlObj.hostname, Labels(urlObj.hostname))

\* normalizedUrl: https:// is prefixed when no http(s) scheme leads.
WithScheme(t) == IF StartsWithHttp(t) THEN t ELSE <<"https:", "/", "/">> \o t

parseUrl(input) == Call(ParseUrlObj, Call(NewURL, WithScheme(trim(input))))

\* `${protocol}//${host}`
Origin(protocol, host) == <<protocol, "/", "/">> \o host

(***************************************************************************)
(* CONFIG tables.  The source lists 31 subdomains and 25 paths; the model  *)
(* keeps the head of each table.                                           *)
(***************************************************************************)
subdomains == <<"docs", "api-docs">>
docPaths == <<"docs">>
wellKnownPaths ==
    << <<"/", ".well-known", "/", "llms.txt">>,
       <<"/", ".well-known", "/", "llms-full.txt">>,
       <<"/", "llms.txt">>,
       <<"/", "llms-full.txt">> >>

Cand(u, p, src) == [url |-> u, priority |-> p, source |-> src]

Urls(cs) == [k \in 1..Len(cs) |-> cs[k].url]

\* Array.prototype.sort((a, b) => a.priority - b.priority): stable.
RECURSIVE InsertByPriority(_, _)
InsertByPriority(sorted, c) ==
    IF sorted = <<>> THEN <<c>>
    ELSE IF sorted[Len(sorted)].priority <= c.priority THEN Append(sorted, c)
    ELSE Append(InsertByPriority(SubSeq(sorted, 1, Len(sorted) - 1), c),
                sorted[Len(sorted)])

RECURSIVE SortByPriority(_)
SortByPriority(cs) ==
    IF cs = <<>> THEN <<>>
    ELSE Call(LAMBDA sorted : InsertByPriority(sorted, cs[Len(cs)]),
              SortByPriority(SubSeq(cs, 1, Len(cs) - 1)))

\* The key of the orchestrator's dedup: u.url.replace(/\/$/, '').toLowerCase()
NormalizedUrl(u) == toLowerCase(StripTrailingSlash(u))

\* The key a dedup adds to its seen Set: the url itself in
\* generateUrlPatterns, the normalized url in discoverLlmsTxt.
KeyOf(normalize, u) == IF normalize THEN NormalizedUrl(u) ELSE u

\* A dedup that keeps the last instance of each key instead of the first.
RECURSIVE FilterLastSeen(_, _, _)
FilterLastSeen(cs, normalize, seen) ==
    IF cs = <<>> THEN <<>>
    ELSE IF KeyOf(normalize, cs[Len(cs)].url) \in seen
         THEN FilterLastSeen(SubSeq(cs, 1, Len(cs) - 1), normalize, seen)
    ELSE FilterLastSeen(SubSeq(cs, 1, Len(cs) - 1), normalize,
                        seen \cup {KeyOf(normalize, cs[Len(cs)].url)})
           \o <<cs[Len(cs)]>>

\* filter(u => { if (seen.has(key(u))) return false; seen.add(key(u)); return true })
RECURSIVE FilterFirstSeen(_, _, _)
FilterFirstSeen(cs, normalize, seen) ==
    IF cs = <<>> THEN <<>>
    ELSE IF KeyOf(normalize, cs[1].url) \in seen
         THEN FilterFirstSeen(Tail(cs), normalize, seen)
    ELSE <<cs[1]>> \o FilterFirstSeen(Tail(cs), normalize,
                                      seen \cup {KeyOf(normalize, cs[1].url)})

\* generateUrlPatterns, the urls array before its dedup and sort.
PatternUrls(p) ==
    (IF p.hasSubdomain /\ p.subdomain # <<>>
     THEN << Cand(Origin(p.protocol, p.hostname),
                  PrioUserSubdomain, "user-provided-subdomain") >>
     ELSE <<>>)
    \o [k \in 1..Len(subdomains) |->
          Cand(Origin(p.protocol, <<subdomains[k], ".">> \o p.fullDomain),
               PrioSubdomainBase + (k - 1), "subdomain-pattern")]
    \o << Cand(Origin(p.protocol, p.fullDomain), PrioMainDomain, "main-domain"),
          Cand(Origin(p.protocol, <<"www", ".">> \o p.fullDomain),
               PrioWwwDomain, "www-domain") >>
    \o Flatten([k \in 1..Len(docPaths) |->
          << Cand(Origin(p.protocol, p.fullDomain) \o <<"/", docPaths[k]>>,
                  PrioPathBase + (k - 1), "path-pattern"),
             Cand(Origin(p.protocol, <<"www", ".">> \o p.fullDomain)
                     \o <<"/", docPaths[k]>>,
                  PrioPathBase + 1 + (k - 1), "path-pattern") >>])

PatternsOf(input, p) ==
    IF ~p.ok THEN << Cand(input, 0, "input") >>
    ELSE Call(SortByPriority,
              Call(LAMBDA urls : FilterFirstSeen(urls, FALSE, {}), PatternUrls(p)))

generateUrlPatterns(input) == Call(LAMBDA p : PatternsOf(input, p), parseUrl(input))

\* The dedup of generateUrlPatterns (exact strings) used in its place.
DedupExactSortCap(all) ==
    Call(LAMBDA sorted : Slice(sorted, 0, MaxUrlsToScan),
         Call(SortByPriority, FilterFirstSeen(all, FALSE, {})))

\* The cap taken before the sort.
DedupCapSort(all) ==
    Call(SortByPriority,
         Call(LAMBDA kept : Slice(kept, 0, MaxUrlsToScan), FilterFirstSeen(all, TRUE, {})))

\* discoverLlmsTxt, "Deduplicate and sort by priority".
DedupSortCap(all) ==
    Call(LAMBDA sorted : Slice(sorted, 0, MaxUrlsToScan),
         Call(SortByPriority, FilterFirstSeen(all, TRUE, {})))

\* checkForLlmsTxt: the URL fetched for `file` below baseUrl.
filesToTry == <<"llms-full.txt", "llms.txt">>
TestUrl(baseUrl, file) == StripTrailingSlash(baseUrl) \o <<"/", file>>

\* fetch(url) issues a network request only when url parses as an absolute
\* URL; otherwise it rejects with a TypeError before any I/O.
FetchReachesNetwork(url) == Call(NewURL, url).ok

\* The results checkForLlmsTxt(baseUrl) can return, by what the network
\* answers: the first file whose fetch is OK with valid content wins.
CheckOutcomes(baseUrl) ==
    {"none"}
      \cup (IF FetchReachesNetwork(TestUrl(baseUrl, filesToTry[1]))
            THEN {"llms-full"} ELSE {})
      \cup (IF FetchReachesNetwork(TestUrl(baseUrl, filesToTry[2]))
            THEN {"llms-standard"} ELSE {})

CheckResult(baseUrl, outcome) ==
    IF outcome = "none" THEN [found |-> FALSE, url |-> <<>>, type |-> "null"]
    ELSE [found |-> TRUE,
          url |-> TestUrl(baseUrl, IF outcome = "llms-full"
                                   THEN filesToTry[1] ELSE filesToTry[2]),
          type |-> outcome]

\* checkWellKnownPaths: the test URLs, in the order they are fetched.
WellKnownTests(baseUrls) ==
    Flatten([b \in 1..Len(baseUrls) |->
        [k \in 1..Len(wellKnownPaths) |-> baseUrls[b] \o wellKnownPaths[k]]])

WellKnownBases(p) ==
    IF ~p.ok THEN <<>>
    ELSE UniqueSeq(<< Origin(p.protocol, p.hostname),
                      Origin(p.protocol, p.fullDomain),
                      Origin(p.protocol, <<"www", ".">> \o p.fullDomain) >>)

WellKnownUrls(input) == Call(WellKnownTests, Call(WellKnownBases, parseUrl(input)))

\* path.includes('llms-full')
WellKnownType(url) ==
    IF url[Len(url)] = "llms-full.txt" THEN "llms-full" ELSE "llms-standard"

\* result.url.replace(/\/llms(-full)?\.txt$/, '')
StripLlmsFile(url) ==
    IF Len(url) >= 2 /\ url[Len(url) - 1] = "/"
       /\ url[Len(url)] \in {"llms.txt", "llms-full.txt"}
    THEN SubSeq(url, 1, Len(url) - 2) ELSE url

(***************************************************************************)
(* The probe strategies.  What a strategy returns depends on what the      *)
(* network answers; each operator below gives the values its promise can   *)
(* settle with.  Every strategy returns [] before any fetch when parseUrl  *)
(* fails, and catches its own fetch failures (an empty or partial list).   *)
(***************************************************************************)
\* discoveryPromises, in the order they are pushed.
PromiseOrder == <<"patterns", "robots", "homepage", "platform", "github", "openapi">>

AllStrategies == {"wellknown", "patterns", "platform", "homepage", "robots",
                  "sitemap", "github", "openapi"}

RobotsValues(p) ==
    IF ~p.ok THEN {<<>>}
    ELSE {<<>>,
          << Cand(Origin(p.protocol, p.hostname) \o <<"/", "sitemap.xml">>,
                  15, "robots-sitemap"),
             Cand(Origin(p.protocol, p.hostname) \o <<"/", "Docs", "/">>,
                  30, "robots-allow") >>}

parseRobotsTxt(input) == Call(RobotsValues, parseUrl(input))

HomepageValues(p) ==
    IF ~p.ok THEN {<<>>}
    ELSE {<<>>,
          << Cand(Origin(p.protocol, p.hostname) \o <<"/", "docs">>,
                  25, "homepage-link"),
             Cand(<<"https:", "/", "/", "Example", ".", "com", "/">>,
                  5, "canonical") >>,
          << Cand(Origin(p.protocol, <<"www", ".">> \o p.fullDomain) \o <<"/">>,
                  5, "canonical") >>}

scrapeHomepageLinks(input) == Call(HomepageValues, parseUrl(input))

PlatformValues(p) ==
    IF ~p.ok THEN {<<>>}
    ELSE {<<>>,
          << Cand(Origin(p.protocol, p.hostname) \o <<"/", "llms.txt">>,
                  5, "platform-gitbook") >>}

detectDocPlatform(input) == Call(PlatformValues, parseUrl(input))

GitValues(p) ==
    IF ~p.ok THEN {<<>>}
    ELSE {<<>>,
          << Cand(<<"https:", "/", "/", "owner", ".", "github", ".", "io",
                    "/", "repo", "/", "llms.txt">>, 8, "github-pages") >>}

checkGitRepository(input) == Call(GitValues, parseUrl(input))

OpenApiValues(p) ==
    IF ~p.ok THEN {<<>>}
    ELSE {<<>>,
          << Cand(Origin(p.protocol, p.hostname), 8, "openapi-base"),
             Cand(Origin(p.protocol, p.hostname) \o <<"/", "docs">>,
                  9, "openapi-docs") >>}

checkOpenApiEndpoints(input) == Call(OpenApiValues, parseUrl(input))

SitemapValues(u) ==
    IF ~u.ok THEN {<<>>}
    ELSE {<<>>,
          << Cand(Origin(u.protocol, u.hostname) \o <<"/", "docs">>,
                  20, "sitemap-docs") >>}

parseSitemap(sitemapUrl) == Call(SitemapValues, Call(NewURL, sitemapUrl))

StrategyValues(s, input) ==
    CASE s = "patterns" -> {generateUrlPatterns(input)}
      [] s = "robots"   -> parseRobotsTxt(input)
      [] s = "homepage" -> scrapeHomepageLinks(input)
      [] s = "platform" -> detectDocPlatform(input)
      [] s = "github"   -> checkGitRepository(input)
      [] s = "openapi"  -> checkOpenApiEndpoints(input)

\* A strategy's promise right after the call that creates it: patterns is
\* Promise.resolve(...); an async strategy that returns before its first
\* await (parseUrl failed) is already resolved; the others are pending on
\* their first fetch.
SpawnedTask(s, input) ==
    IF s = "patterns" THEN [st |-> "fulfilled", value |-> generateUrlPatterns(input)]
    ELSE IF ~parseUrl(input).ok THEN [st |-> "fulfilled", value |-> <<>>]
    ELSE [st |-> "pending", value |-> <<>>]

NoTask == [st |-> "none", value |-> <<>>]

\* for (const result of discoveryResults)
\*   if (result.status === 'fulfilled') allDiscoveredUrls.push(...result.value)
RECURSIVE MergeSettledFrom(_, _)
MergeSettledFrom(ts, order) ==
    IF order = <<>> THEN <<>>
    ELSE (IF ts[order[1]].st = "fulfilled" THEN ts[order[1]].value ELSE <<>>)
           \o MergeSettledFrom(ts, Tail(order))

\* Promise.all in place of Promise.allSettled: one rejection loses them all.
MergeFailFast(ts) ==
    IF \E s \in DOMAIN ts : ts[s].st = "rejected" THEN <<>>
    ELSE MergeSettledFrom(ts, PromiseOrder)

MergeSettled(ts) == MergeSettledFrom(ts, PromiseOrder)

\* Phase 3: the sitemap URLs that get parsed.
StandardSitemaps(p) ==
    IF p.ok
    THEN << Origin(p.protocol, p.hostname) \o <<"/", "sitemap.xml">>,
            Origin(p.protocol, p.fullDomain) \o <<"/", "sitemap.xml">> >>
    ELSE <<>>

SitemapUrls(all, input) ==
    Call(LAMBDA sitemapUrls : Slice(sitemapUrls, 0, MaxSitemaps),
         Call(UniqueSeq,
              Urls(SelectSeq(all, LAMBDA c : c.source = "robots-sitemap"))
                \o StandardSitemaps(parseUrl(input))))

\* source.includes(needle), for the source tags the strategies write.
SourceIncludes(source, needle) ==
    CASE needle = "user-provided" -> source \in {"user-provided-subdomain"}
      [] needle = "well-known"    -> FALSE
      [] needle = "platform"      -> source \in {"platform-gitbook"}
      [] needle = "github"        -> source \in {"github-pages"}

ConfidenceOf(source) ==
    IF SourceIncludes(source, "user-provided") \/ SourceIncludes(source, "well-known")
    THEN "high"
    ELSE IF SourceIncludes(source, "platform") \/ SourceIncludes(source, "github")
    THEN "high"
    ELSE "medium"

(***************************************************************************)
(* discoverLlmsTxt as a state machine: one action per stretch of code      *)
(* between two awaits.                                                     *)
(***************************************************************************)
InputUrls ==
    { <<"example", ".", "com">>,
      <<"https:", "/", "/", "docs", ".", "example", ".", "com">>,
      <<"not a url">>,
      <<"http:", "/", "/">> }

StrategySets ==
    { AllStrategies,
      {"patterns", "robots", "sitemap"},
      {"wellknown", "patterns"} }

Timeouts == {0, MaxTime}

NoResult == [kind |-> "pending"]

\* A budget that is never found exceeded.
neverTimedOut(t) == FALSE

\* const isTimedOut = () => Date.now() - startTime > timeoutMs
isTimedOut(t) == t > timeoutMs

\* Date.now() after an await: the clock has moved on by dt.
Later(dt) == Min(elapsed + dt, MaxTime)

FoundResult(url, llmsTxtUrl, type, scanned, method, confidence) ==
    [kind |-> "returned", found |-> TRUE, url |-> url, llmsTxtUrl |-> llmsTxtUrl,
     type |-> type, scannedUrls |-> scanned,
     discoveryMethod |-> method, confidence |-> confidence]

NotFoundResult(scanned) ==
    [kind |-> "returned", found |-> FALSE, url |-> <<>>, llmsTxtUrl |-> <<>>,
     type |-> "null", scannedUrls |-> scanned,
     discoveryMethod |-> "undefined", confidence |-> "undefined"]

InstallIdle ==
    /\ ipc = "idle"
    /\ genData = [productName |-> <<>>]
    /\ docLines = <<>>
    /\ installMd = <<>>
    /\ parsed = [done |-> FALSE]
    /\ quick = [done |-> FALSE]

\* No utility function is under call.
UtilIdle ==
    /\ fn = "none"
    /\ fnArg = <<>>
    /\ fnOut = [done |-> FALSE]

\* No extraction runs.
ExtractIdle ==
    /\ xpc = "idle"
    /\ impl = "none"
    /\ tryIdx = 0
    /\ requested = <<>>
    /\ served = [intro |-> <<>>, sections |-> <<>>]
    /\ rawContent = <<>>
    /\ sourceUrl = <<>>
    /\ linked = <<>>
    /\ documents = <<>>
    /\ xresult = [kind |-> "pending", status |-> 0]

\* parseSitemap is not under call.
SitemapIdle ==
    /\ smWeb = <<>>
    /\ smStack = <<>>
    /\ smFetched = <<>>
    /\ smResult = [kind |-> "pending", urls |-> <<>>]

\* fetchAllLinkedLlmsTxt is not under call.
LinkedIdle ==
    /\ lfFiles = <<>>
    /\ lfI = 0
    /\ lfBatch = <<>>
    /\ lfResults = <<>>
    /\ lfDocuments = <<>>
    /\ lfpc = "idle"

\* The health endpoint has received no request.
HealthIdle ==
    /\ hNow = 0
    /\ lastHealthReport = [by |-> 0, at |-> 0]
    /\ lastHealthCheckTime = 0
    /\ hRequests = <<>>
    /\ hStarted = <<>>

\* The verification endpoint has received no request.
VerifyIdle ==
    /\ vNow = 0
    /\ verificationCache = <<>>
    /\ vJobs = <<>>
    /\ vFetched = {}

\* The hook is mounted and verify was never called.
HookIdle ==
    /\ hookState = [status |-> "idle", result |-> 0, error |-> 0]
    /\ clientCache = [result |-> 0, fresh |-> FALSE]
    /\ abortControllerRef = 0
    /\ hkRequests = <<>>

RestIdle == SitemapIdle /\ LinkedIdle /\ HealthIdle /\ VerifyIdle /\ HookIdle
SitemapRestIdle == LinkedIdle /\ HealthIdle /\ VerifyIdle /\ HookIdle
LinkedRestIdle == SitemapIdle /\ HealthIdle /\ VerifyIdle /\ HookIdle
HealthRestIdle == SitemapIdle /\ LinkedIdle /\ VerifyIdle /\ HookIdle
VerifyRestIdle == SitemapIdle /\ LinkedIdle /\ HealthIdle /\ HookIdle
HookRestIdle == SitemapIdle /\ LinkedIdle /\ HealthIdle /\ VerifyIdle

DiscoverInit ==
    /\ inputUrl \in InputUrls
    /\ strategies \in StrategySets
    /\ timeoutMs \in Timeouts
    /\ elapsed = 0
    /\ pc = "start"
    /\ wkQueue = <<>>
    /\ tasks = [s \in Range(PromiseOrder) |-> NoTask]
    /\ allDiscoveredUrls = <<>>
    /\ sitemapQueue = <<>>
    /\ uniqueUrls = <<>>
    /\ batchIdx = 0
    /\ batch = <<>>
    /\ checks = <<>>
    /\ scannedUrls = <<>>
    /\ result = NoResult
    /\ started = {}
    /\ requests = {}
    /\ checksIssued = <<>>
    /\ wkFound = FALSE

Init == DiscoverInit /\ InstallIdle /\ UtilIdle /\ ExtractIdle /\ RestIdle

\* The hit is ignored and discovery goes on to phase 2.
WellKnownHitIgnored(r) == r.found /\ r.url = <<>>

\* if (result.found && result.url): the fast path is taken.
WellKnownHit(r) == r.found /\ r.url # <<>>

\* Phase 1 up to the first fetch of checkWellKnownPaths (or past it, when the
\* strategy is off, the budget is spent or parseUrl fails).
Phase1Start ==
    /\ pc = "start"
    /\ \E dt \in 0..1 :
        /\ elapsed' = Later(dt)
        /\ IF "wellknown" \in strategies /\ ~isTimedOut(elapsed')
           THEN /\ started' = started \cup {"wellknown"}
                /\ wkQueue' = WellKnownUrls(inputUrl)
                /\ pc' = IF wkQueue' = <<>> THEN "gather" ELSE "wellknown"
                /\ requests' = IF wkQueue' = <<>> THEN requests
                               ELSE requests \cup {"wellknown"}
           ELSE /\ pc' = "gather"
                /\ UNCHANGED <<started, wkQueue, requests>>
    /\ UNCHANGED <<inputUrl, strategies, timeoutMs, tasks, allDiscoveredUrls,
                   sitemapQueue, uniqueUrls, batchIdx, batch, scannedUrls,
                   result, checksIssued>>
    /\ UNCHANGED <<wkFound, checks, instVars, otherVars>>

FetchOutcomes == {"ok_valid", "ok_invalid", "not_ok", "throw"}

\* checkWellKnownPaths: the fetch of the next test URL settles.  A valid
\* body ends the probe and, in discoverLlmsTxt, the call.
WellKnownFetch ==
    /\ pc = "wellknown"
    /\ \E outcome \in FetchOutcomes, dt \in 0..1 :
        LET testUrl == Head(wkQueue)
            r == IF outcome = "ok_valid"
                 THEN [found |-> TRUE, url |-> testUrl, type |-> WellKnownType(testUrl)]
                 ELSE [found |-> FALSE, url |-> <<>>, type |-> "null"]
        IN /\ elapsed' = Later(dt)
           /\ wkFound' = r.found
           /\ IF outcome = "ok_valid"
              THEN IF WellKnownHit(r)
                   THEN /\ scannedUrls' = Append(scannedUrls, r.url)
                        /\ result' = FoundResult(StripLlmsFile(r.url), r.url, r.type,
                                                 scannedUrls', "well-known-path", "high")
                        /\ pc' = "done"
                        /\ wkQueue' = <<>>
                   ELSE /\ pc' = "gather"
                        /\ wkQueue' = <<>>
                        /\ UNCHANGED <<scannedUrls, result>>
              ELSE /\ wkQueue' = Tail(wkQueue)
                   /\ pc' = IF wkQueue' = <<>> THEN "gather" ELSE "wellknown"
                   /\ UNCHANGED <<scannedUrls, result>>
    /\ UNCHANGED <<inputUrl, strategies, timeoutMs, tasks, allDiscoveredUrls,
                   sitemapQueue, uniqueUrls, batchIdx, batch, started, requests,
                   checksIssued>>
    /\ UNCHANGED <<checks, instVars, otherVars>>

\* Phase 2: every enabled strategy is called; each call runs to its first
\* await, which for a parsed input is its first fetch.
GatherStart ==
    /\ pc = "gather"
    /\ LET spawned == strategies \cap Range(PromiseOrder)
       IN /\ tasks' = [s \in Range(PromiseOrder) |->
                          IF s \in spawned THEN SpawnedTask(s, inputUrl) ELSE NoTask]
          /\ started' = started \cup spawned
          /\ requests' = requests \cup {s \in spawned : tasks'[s].st = "pending"}
    /\ pc' = "gathering"
    /\ UNCHANGED <<inputUrl, strategies, timeoutMs, elapsed, wkQueue,
                   allDiscoveredUrls, sitemapQueue, uniqueUrls, batchIdx, batch,
                   scannedUrls, result, checksIssued>>
    /\ UNCHANGED <<wkFound, checks, instVars, otherVars>>

\* A strategy's promise settles: fulfilled with what it found, or rejected.
TaskSettle(s) ==
    /\ pc = "gathering"
    /\ tasks[s].st = "pending"
    /\ \/ \E v \in StrategyValues(s, inputUrl) :
            tasks' = [tasks EXCEPT ![s] = [st |-> "fulfilled", value |-> v]]
       \/ tasks' = [tasks EXCEPT ![s] = [st |-> "rejected", value |-> <<>>]]
    /\ UNCHANGED <<inputUrl, strategies, timeoutMs, elapsed, pc, wkQueue,
                   allDiscoveredUrls, sitemapQueue, uniqueUrls, batchIdx, batch,
                   scannedUrls, result, started, requests, checksIssued>>
    /\ UNCHANGED <<wkFound, checks, instVars, otherVars>>

\* A join that resolves only when every promise has fulfilled: a rejection
\* leaves it pending for ever.
AllFulfilled(ts) == \A s \in DOMAIN ts : ts[s].st \in {"none", "fulfilled"}

\* Promise.allSettled resolves once no promise is pending.
AllSettled(ts) == \A s \in DOMAIN ts : ts[s].st # "pending"

\* await Promise.allSettled(discoveryPromises) resumes; the fulfilled values
\* are merged.
GatherJoin ==
    /\ pc = "gathering"
    /\ AllSettled(tasks)
    /\ allDiscoveredUrls' = allDiscoveredUrls \o MergeSettled(tasks)
    /\ \E dt \in 0..1 : elapsed' = Later(dt)
    /\ pc' = "joined"
    /\ UNCHANGED <<inputUrl, strategies, timeoutMs, wkQueue, tasks, sitemapQueue,
                   uniqueUrls, batchIdx, batch, scannedUrls, result, started,
                   requests, checksIssued>>
    /\ UNCHANGED <<wkFound, checks, instVars, otherVars>>

\* scannedUrls.push(url) for every job of a batch, before its check is awaited.
ScanBatchNotRecorded(scanned, b) == scanned

ScanBatch(scanned, b) == scanned \o Urls(b)

\* i += CONFIG.batchSize
NextBatch(i) == i + BatchSize

\* A batch of everything that is left.
AllRemaining(urls, i) == Slice(urls, i, Len(urls))

\* uniqueUrls.slice(i, i + CONFIG.batchSize)
BatchOf(urls, i) == Slice(urls, i, i + BatchSize)

\* The loop head of phase 3 for the sitemap URLs left in q at time t: the
\* next parseSitemap is called (pc "sitemap"), or the loop is left and the
\* candidates are deduplicated, sorted and capped (pc "verify").
SitemapLoop(q, t, all) ==
    IF q # <<>> /\ ~isTimedOut(t)
    THEN /\ pc' = "sitemap"
         /\ sitemapQueue' = q
         /\ started' = started \cup {"sitemap"}
         /\ requests' = IF FetchReachesNetwork(Head(q))
                        THEN requests \cup {"sitemap"} ELSE requests
         /\ UNCHANGED uniqueUrls
    ELSE /\ pc' = "verify"
         /\ sitemapQueue' = <<>>
         /\ uniqueUrls' = DedupSortCap(all)
         /\ UNCHANGED <<started, requests>>

\* From the join to the first parseSitemap (or straight to phase 4).
AfterJoin ==
    /\ pc = "joined"
    /\ tasks' = [s \in Range(PromiseOrder) |-> NoTask]
    /\ \E sitemapUrls \in {IF "sitemap" \in strategies /\ ~isTimedOut(elapsed)
                            THEN SitemapUrls(allDiscoveredUrls, inputUrl)
                            ELSE <<>>} :
          SitemapLoop(sitemapUrls, elapsed, allDiscoveredUrls)
    /\ UNCHANGED <<inputUrl, strategies, timeoutMs, elapsed, wkQueue,
                   allDiscoveredUrls, batchIdx, batch, scannedUrls, result,
                   checksIssued>>
    /\ UNCHANGED <<wkFound, checks, instVars, otherVars>>

\* await parseSitemap(sitemapUrl) resumes.
SitemapSettle ==
    /\ pc = "sitemap"
    /\ \E v \in parseSitemap(Head(sitemapQueue)), dt \in 0..1 :
        /\ elapsed' = Later(dt)
        /\ allDiscoveredUrls' = allDiscoveredUrls \o v
        /\ SitemapLoop(Tail(sitemapQueue), elapsed', allDiscoveredUrls')
    /\ UNCHANGED <<inputUrl, strategies, timeoutMs, wkQueue, tasks, batchIdx, batch,
                   scannedUrls, result, checksIssued>>
    /\ UNCHANGED <<wkFound, checks, instVars, otherVars>>

\* Phase 4, the head of the batch loop: the next batch's checks are issued,
\* or the loop ends (candidates or budget exhausted) and found:false is
\* returned.
BatchStart ==
    /\ pc = "verify"
    /\ IF batchIdx < Len(uniqueUrls) /\ ~isTimedOut(elapsed)
       THEN /\ batch' = BatchOf(uniqueUrls, batchIdx)
            /\ checks' = [k \in 1..Len(batch') |-> "pending"]
            /\ scannedUrls' = ScanBatch(scannedUrls, batch')
            /\ checksIssued' = checksIssued \o Urls(batch')
            /\ requests' =
                 IF \E k \in 1..Len(batch') : \E f \in Range(filesToTry) :
                        FetchReachesNetwork(TestUrl(batch'[k].url, f))
                 THEN requests \cup {"verify"} ELSE requests
            /\ pc' = "batch"
            /\ UNCHANGED result
       ELSE /\ result' = NotFoundResult(scannedUrls)
            /\ pc' = "done"
            /\ UNCHANGED <<batch, checks, scannedUrls, checksIssued, requests>>
    /\ UNCHANGED <<inputUrl, strategies, timeoutMs, elapsed, wkQueue, tasks,
                   allDiscoveredUrls, sitemapQueue, uniqueUrls, batchIdx, started>>
    /\ UNCHANGED <<wkFound, instVars, otherVars>>

\* The check of job k of the batch settles: checkForLlmsTxt(url) returns.
CheckSettle(k) ==
    /\ pc = "batch"
    /\ k \in 1..Len(batch)
    /\ checks[k] = "pending"
    /\ \E outcome \in CheckOutcomes(batch[k].url) :
          checks' = [checks EXCEPT ![k] = outcome]
    /\ UNCHANGED <<inputUrl, strategies, timeoutMs, elapsed, pc, wkQueue, tasks,
                   allDiscoveredUrls, sitemapQueue, uniqueUrls, batchIdx, batch,
                   scannedUrls, result, started, requests, checksIssued>>
    /\ UNCHANGED <<wkFound, instVars, otherVars>>

\* The checks of the batch that found a file.
Hits(cs) == {k \in 1..Len(cs) : cs[k] \notin {"pending", "none"}}

\* A join that resumes at the first check that found a file.
BatchRaced(cs) == Hits(cs) # {} \/ \A k \in 1..Len(cs) : cs[k] # "pending"

\* await Promise.allSettled(batch.map(...)) resumes once every check of the
\* batch has settled.
BatchSettled(cs) == \A k \in 1..Len(cs) : cs[k] # "pending"

\* The last job of the batch whose check found a file.
LastHit(cs) == MaxOf(Hits(cs))

\* for (const result of results) { if (... result.value.result.found) return }
FirstHit(cs) == MinOf(Hits(cs))

\* for (const result of results): the first job, in batch order, whose check
\* found a file ends the call; without one the loop goes on.
BatchSettle ==
    /\ pc = "batch"
    /\ BatchSettled(checks)
    /\ \E dt \in 0..1 :
        LET hits == Hits(checks)
        IN /\ elapsed' = Later(dt)
           /\ IF hits # {}
              THEN LET k == FirstHit(checks)
                       c == batch[k]
                       checkResult == CheckResult(c.url, checks[k])
                   IN /\ result' = FoundResult(c.url, checkResult.url,
                                               checkResult.type, scannedUrls,
                                               c.source, ConfidenceOf(c.source))
                      /\ pc' = "done"
                      /\ UNCHANGED batchIdx
              ELSE /\ batchIdx' = NextBatch(batchIdx)
                   /\ pc' = "verify"
                   /\ UNCHANGED result
    /\ batch' = <<>>
    /\ checks' = <<>>
    /\ UNCHANGED <<inputUrl, strategies, timeoutMs, wkQueue, tasks,
                   allDiscoveredUrls, sitemapQueue, uniqueUrls, scannedUrls,
                   started, requests, checksIssued>>
    /\ UNCHANGED <<wkFound, instVars, otherVars>>

Next ==
    \/ Phase1Start
    \/ WellKnownFetch
    \/ GatherStart
    \/ \E s \in Range(PromiseOrder) : TaskSettle(s)
    \/ GatherJoin
    \/ AfterJoin
    \/ SitemapSettle
    \/ BatchStart
    \/ \E k \in 1..BatchSize : CheckSettle(k)
    \/ BatchSettle

Spec == Init /\ [][Next]_vars

\* Every network call completes or times out, and the event loop runs every
\* continuation that is ready.
LiveSpec == Init /\ [][Next]_vars /\ WF_vars(Next)

(***************************************************************************)
(* Properties of discoverLlmsTxt.                                          *)
(***************************************************************************)
Done == pc = "done"

\* C1: once the well-known-path probe has found a valid file, the call has
\* returned found = true with discoveryMethod 'well-known-path' and
\* confidence 'high', and no other strategy, no sitemap parse and no batch
\* check was started in the call.
C1_WellKnownFastPath ==
    wkFound =>
        /\ Done
        /\ result.kind = "returned"
        /\ result.found
        /\ result.discoveryMethod = "well-known-path"
        /\ result.confidence = "high"
        /\ started = {"wellknown"}
        /\ requests = {"wellknown"}
        /\ checksIssued = <<>>
        /\ \A s \in Range(PromiseOrder) : tasks[s].st = "none"

C1_Witness ==
    /\ wkFound
    /\ Done
    /\ strategies = AllStrategies

\* C2 (as claimed): for an input that parseUrl rejects, the call ends at
\* once with an InvalidUrl failure, no check is issued and no request
\* reaches the network.
C2_InvalidUrlNoProbing ==
    ~parseUrl(inputUrl).ok =>
        /\ checksIssued = <<>>
        /\ requests = {}
        /\ Done => result.kind = "invalid-url"

\* C3: a call that ends without a confirmed candidate has returned a result
\* with found = false (it did not throw), and every URL a check was issued
\* for is in its scannedUrls.
C3_NotFoundIsResult ==
    Done =>
        /\ result.kind = "returned"
        /\ ~result.found =>
              \A k \in 1..Len(checksIssued) :
                  checksIssued[k] \in Range(result.scannedUrls)

C3_Witness ==
    /\ Done
    /\ result.kind = "returned"
    /\ ~result.found
    /\ Len(checksIssued) > BatchSize

\* C4: every call eventually returns.
C4_Terminates == <>Done

C4_Witness ==
    /\ Done
    /\ ~result.found
    /\ requests # {}
    /\ "wellknown" \in started

\* C5: when the gather phase has joined, the merged list holds, for every
\* strategy whose promise fulfilled, each of its candidates, and nothing
\* for a strategy that failed, whatever the others did.
C5_SettledAllMerged ==
    pc = "joined" =>
        /\ \A s \in Range(PromiseOrder) :
              tasks[s].st = "fulfilled" =>
                  \A k \in 1..Len(tasks[s].value) :
                      tasks[s].value[k] \in Range(allDiscoveredUrls)
        /\ \A k \in 1..Len(allDiscoveredUrls) :
              \E s \in Range(PromiseOrder) :
                  /\ tasks[s].st = "fulfilled"
                  /\ allDiscoveredUrls[k] \in Range(tasks[s].value)

C5_Witness ==
    /\ pc = "joined"
    /\ tasks["robots"].st = "rejected"
    /\ tasks["homepage"].st = "fulfilled"
    /\ tasks["homepage"].value # <<>>
    /\ tasks["openapi"].st = "fulfilled"
    /\ tasks["openapi"].value # <<>>

\* C6: no two candidates of the list submitted to verification share a
\* normalized URL (one trailing slash removed, lowercased).
C6_NoDuplicateNormalizedUrl ==
    \A a, b \in 1..Len(uniqueUrls) :
        a # b => NormalizedUrl(uniqueUrls[a].url) # NormalizedUrl(uniqueUrls[b].url)

C6_Witness ==
    /\ pc = "verify"
    /\ Len(uniqueUrls) >= 2
    /\ \E a, b \in 1..Len(allDiscoveredUrls) :
          /\ a < b
          /\ allDiscoveredUrls[a].url # allDiscoveredUrls[b].url
          /\ NormalizedUrl(allDiscoveredUrls[a].url)
               = NormalizedUrl(allDiscoveredUrls[b].url)
          /\ allDiscoveredUrls[a] \in Range(uniqueUrls)

\* The first position of allDiscoveredUrls holding the normalized URL of c.
FirstSeenAt(c) ==
    MinOf({k \in 1..Len(allDiscoveredUrls) :
              NormalizedUrl(allDiscoveredUrls[k].url) = NormalizedUrl(c.url)})

C18_NoBatchAfterTimeout ==
    [][elapsed > timeoutMs =>
          /\ checksIssued' = checksIssued
          /\ pc \in {"verify", "batch"} => scannedUrls' = scannedUrls
          /\ pc' = "batch" => pc = "batch"]_vars

C18_Witness ==
    /\ Done
    /\ ~result.found
    /\ elapsed > timeoutMs
    /\ checksIssued # <<>>
    /\ Len(checksIssued) < Len(uniqueUrls)

\* C19 (as claimed): when the gather phase is entered with the budget
\* already exceeded, none of its probes issues a network request.
C19_GatherGatedByBudget ==
    (pc = "gathering" /\ elapsed > timeoutMs) =>
        requests \cap {"robots", "homepage", "platform", "github", "openapi"} = {}

\* C20 (as claimed): of the merged candidates that share a normalized URL,
\* the list submitted to verification holds the one with the lowest
\* priority value.
C20_DedupKeepsLowestPriority ==
    pc \in {"verify", "batch", "done"} =>
        \A k \in 1..Len(uniqueUrls) : \A j \in 1..Len(allDiscoveredUrls) :
            NormalizedUrl(allDiscoveredUrls[j].url) = NormalizedUrl(uniqueUrls[k].url)
                => uniqueUrls[k].priority <= allDiscoveredUrls[j].priority

\* C20: of the merged candidates that share a normalized URL, the list
\* submitted to verification holds the first-seen one, in merge order
\* (patterns, robots, homepage, platform, github, openapi, then sitemaps),
\* whatever its priority; inside generateUrlPatterns the first-seen one of
\* equal URLs is also the one with the lowest priority value.
C20_DedupKeepsFirstSeen ==
    /\ pc \in {"verify", "batch"} =>
          \A k \in 1..Len(uniqueUrls) :
              uniqueUrls[k] = allDiscoveredUrls[FirstSeenAt(uniqueUrls[k])]
    /\ parseUrl(inputUrl).ok =>
          \A c \in Range(generateUrlPatterns(inputUrl)) :
              \A d \in Range(PatternUrls(parseUrl(inputUrl))) :
                  d.url = c.url => c.priority <= d.priority

C20_Witness ==
    /\ pc = "verify"
    /\ \E k \in 1..Len(uniqueUrls) : \E j \in 1..Len(allDiscoveredUrls) :
          /\ NormalizedUrl(allDiscoveredUrls[j].url) = NormalizedUrl(uniqueUrls[k].url)
          /\ allDiscoveredUrls[j].priority < uniqueUrls[k].priority

\* The candidates left after the dedup, before the sort and the cap.
Deduplicated == FilterFirstSeen(allDiscoveredUrls, TRUE, {})

\* The checks of the batch in flight that have not settled.
InFlight == {k \in 1..Len(checks) : checks[k] = "pending"}

\* C21: the candidates submitted to batch verification in one call are at
\* most MaxUrlsToScan, each at most once, and they are candidates of lowest
\* priority value of the deduplicated list: no candidate left out has a
\* priority value below that of a candidate kept.
C21_AtMostCapLowestPriority ==
    /\ Len(checksIssued) <= MaxUrlsToScan
    /\ pc \in {"verify", "batch"} =>
          /\ Len(uniqueUrls) = Min(Len(Deduplicated), MaxUrlsToScan)
          /\ Range(uniqueUrls) \subseteq Range(Deduplicated)
          /\ checksIssued = Urls(SubSeq(uniqueUrls, 1, Len(checksIssued)))
          /\ \A c \in Range(Deduplicated) \ Range(uniqueUrls) :
                \A k \in 1..Len(uniqueUrls) : uniqueUrls[k].priority <= c.priority

\* Every candidate kept was checked, and candidates were left out by the cap.
C21_Witness ==
    /\ pc = "verify"
    /\ Len(Deduplicated) > MaxUrlsToScan
    /\ Len(checksIssued) = MaxUrlsToScan
    /\ \E c \in Range(Deduplicated) \ Range(uniqueUrls) :
          c.priority > uniqueUrls[Len(uniqueUrls)].priority

\* C22: at most BatchSize checks are in flight at any moment; checks are
\* issued only at the head of the batch loop, at most BatchSize at a time,
\* with no check of an earlier batch in flight, and the call leaves a batch
\* only when every check of it has settled.
C22_BatchesBoundedAndSequential ==
    /\ [](Cardinality(InFlight) <= BatchSize)
    /\ [][/\ checksIssued' # checksIssued =>
                /\ pc = "verify"
                /\ InFlight = {}
                /\ Len(checksIssued') - Len(checksIssued) <= BatchSize
          /\ (pc = "batch" /\ pc' # "batch") => InFlight = {}]_vars

\* The second batch is in flight, the first one was issued in full.
C22_Witness ==
    /\ pc = "batch"
    /\ Len(checksIssued) > BatchSize
    /\ InFlight # {}

\* C28: the list submitted to verification is in ascending order of
\* priority; a later batch is entered only when no check of the batch
\* before found a file; and the candidate returned from a batch is the
\* first one of that batch, in list order, whose check found a file,
\* whatever the order the checks settled in.
C28_ReturnsFirstConfirmedInRankOrder ==
    /\ [](pc \in {"verify", "batch"} =>
            \A i, j \in 1..Len(uniqueUrls) :
                i < j => uniqueUrls[i].priority <= uniqueUrls[j].priority)
    /\ [][pc = "batch" =>
            /\ batch = SubSeq(uniqueUrls, batchIdx + 1, batchIdx + Len(batch))
            /\ pc' = "verify" => Hits(checks) = {}
            /\ (pc' = "done" /\ result'.found) =>
                  \E k \in Hits(checks) :
                      /\ result'.url = uniqueUrls[batchIdx + k].url
                      /\ \A i \in 1..(k - 1) : i \notin Hits(checks)]_vars

\* A candidate of the second batch is returned.
C28_Witness ==
    /\ Done
    /\ result.found
    /\ Len(uniqueUrls) > BatchSize
    /\ Len(checksIssued) > BatchSize
    /\ result.url = uniqueUrls[BatchSize + 1].url
    /\ result.discoveryMethod = uniqueUrls[BatchSize + 1].source
    /\ \E c, d \in Range(PatternUrls(parseUrl(inputUrl))) :
          d.url = c.url /\ d.priority # c.priority

(***************************************************************************)
(* install.md texts are sequences of one-character strings.  The regular   *)
(* expressions of install-md-parser.ts are scans of such a sequence, with  *)
(* the engine's greedy matching and backtracking.                          *)
(***************************************************************************)
upperCase ==
    <<"A", "B", "C", "D", "E", "F", "G", "H", "I", "J", "K", "L", "M", "N",
      "O", "P", "Q", "R", "S", "T", "U", "V", "W", "X", "Y", "Z">>
lowerCase ==
    <<"a", "b", "c", "d", "e", "f", "g", "h", "i", "j", "k", "l", "m", "n",
      "o", "p", "q", "r", "s", "t", "u", "v", "w", "x", "y", "z">>
digits ==
    <<"0", "1", "2", "3", "4", "5", "6", "7", "8", "9">>

UpperChars == Range(upperCase)
AlnumChars == Range(lowerCase) \cup Range(digits)
WordChars == UpperChars \cup AlnumChars \cup {"_"}
lowerOf == [c \in UpperChars |-> lowerCase[CHOOSE k \in 1..Len(upperCase) : upperCase[k] = c]]

\* String.prototype.toLowerCase, and the i flag, on one character.
LowerChar(c) == IF c \in UpperChars THEN lowerOf[c] ELSE c

LowerString(s) == [k \in 1..Len(s) |-> LowerChar(s[k])]

\* \s
IsWs(c) == c \in {" ", "\n", "\t"}

\* The literal lit at position i of s.
MatchAt(s, i, lit) ==
    /\ i >= 1
    /\ i + Len(lit) - 1 <= Len(s)
    /\ \A k \in 1..Len(lit) : s[i + k - 1] = lit[k]

\* The same under the i flag.
MatchAtCI(s, i, lit) ==
    /\ i >= 1
    /\ i + Len(lit) - 1 <= Len(s)
    /\ \A k \in 1..Len(lit) : LowerChar(s[i + k - 1]) = LowerChar(lit[k])

\* /lit/i.test(s)
IncludesCI(s, lit) == \E i \in 1..Len(s) : MatchAtCI(s, i, lit)

\* Where a greedy \s* that starts at i stops: the first position from i on
\* that holds no whitespace (Len(s) + 1 at the end of the text).
SkipWs(s, i) ==
    CHOOSE j \in i..(Len(s) + 1) :
        /\ j = Len(s) + 1 \/ ~IsWs(s[j])
        /\ \A k \in i..(j - 1) : IsWs(s[k])

\* ^ under the m flag.
LineStart(s, i) == i = 1 \/ s[i - 1] = "\n"

\* $ under the m flag, reached by a greedy .+ from i: the position of the
\* next newline (Len(s) + 1 on the last line).
EndOfLine(s, i) ==
    CHOOSE j \in i..(Len(s) + 1) :
        /\ j = Len(s) + 1 \/ s[j] = "\n"
        /\ \A k \in i..(j - 1) : s[k] # "\n"

\* String.prototype.trim.
TrimWs(s) ==
    IF \A k \in 1..Len(s) : IsWs(s[k]) THEN <<>>
    ELSE SubSeq(s, CHOOSE a \in 1..Len(s) :
                      ~IsWs(s[a]) /\ \A k \in 1..(a - 1) : IsWs(s[k]),
                   CHOOSE b \in 1..Len(s) :
                      ~IsWs(s[b]) /\ \A k \in (b + 1)..Len(s) : IsWs(s[k]))


strHashes ==
    <<"#", "#">>
strTODO ==
    <<"T", "O", "D", "O">>
strObjective ==
    <<"O", "B", "J", "E", "C", "T", "I", "V", "E", ":">>
strDoneWhen ==
    <<"D", "O", "N", "E", " ", "W", "H", "E", "N", ":">>
strExecuteNow ==
    <<"E", "X", "E", "C", "U", "T", "E", " ", "N", "O", "W", ":">>
strRule ==
    <<"-", "-", "-">>
strExecuteNowBare ==
    <<"E", "X", "E", "C", "U", "T", "E", " ", "N", "O", "W">>

\* /^#\s+\S/m
HasProductName(s) ==
    \E i \in 1..Len(s) :
        /\ s[i] = "#"
        /\ LineStart(s, i)
        /\ i < Len(s)
        /\ IsWs(s[i + 1])
        /\ SkipWs(s, i + 1) <= Len(s)

\* /OBJECTIVE:/i
HasObjective(s) == IncludesCI(s, strObjective)

\* /DONE WHEN:/i
HasDoneWhen(s) == IncludesCI(s, strDoneWhen)

\* /##\s*TODO/i
HasTodo(s) ==
    \E i \in 1..Len(s) :
        MatchAt(s, i, strHashes) /\ MatchAtCI(s, SkipWs(s, i + 2), strTODO)

\* /EXECUTE NOW:/i
HasExecuteNow(s) == IncludesCI(s, strExecuteNow)

\* (?=TODO\b) at p, without the i flag.
LooksAtTodoWord(s, p) ==
    MatchAt(s, p, strTODO) /\ (p + 4 > Len(s) \/ s[p + 4] \notin WordChars)

\* /^##\s+(?!TODO\b).+$/m anchored at i.  \s+ is greedy and gives back one
\* character at a time; the positions where it can stop are those after i + 2
\* up to the end of the whitespace run, and .+ must find a character of the
\* same line there.  0 when nothing matches at i, else the position where
\* the match ends.
StepHeaderStops(s, i) ==
    {p \in (i + 3)..SkipWs(s, i + 2) :
        p <= Len(s) /\ s[p] # "\n" /\ ~LooksAtTodoWord(s, p)}

StepHeaderEnd(s, i) ==
    IF LineStart(s, i) /\ MatchAt(s, i, strHashes) /\ StepHeaderStops(s, i) # {}
    THEN EndOfLine(s, MaxOf(StepHeaderStops(s, i)))
    ELSE 0

\* content.match(/^##\s+(?!TODO\b).+$/gm): the number of matches found from
\* position `from` on, each search resuming where the last match ended.
RECURSIVE CountStepHeaders(_, _, _)
CountStepHeaders(s, starts, from) ==
    IF {i \in starts : i >= from} = {} THEN 0
    ELSE Call(LAMBDA i :
                Call(LAMBDA e : IF e = 0 THEN CountStepHeaders(s, starts, i + 1)
                                ELSE 1 + CountStepHeaders(s, starts, e),
                     StepHeaderEnd(s, i)),
              MinOf({i \in starts : i >= from}))

StepSections(s) ==
    Call(LAMBDA starts : CountStepHeaders(s, starts, 1),
         {i \in 1..Len(s) : LineStart(s, i) /\ MatchAt(s, i, strHashes)})

\* validateInstallMd: the errors array, one push per failed check, in order.
MissingProductName == "Missing product name (H1 header)"
MissingObjective == "Missing OBJECTIVE declaration"
MissingDoneWhen == "Missing DONE WHEN criteria"
MissingTodo == "Missing TODO section with checkbox items"
MissingSteps == "Should have at least one step section beyond TODO"
MissingExecuteNow == "Missing EXECUTE NOW call-to-action"

\* if (!stepSections || stepSections.length < 2)
MinStepSections == 2

HasStepSections(s) == StepSections(s) >= MinStepSections

PushIf(failed, message) == IF failed THEN <<message>> ELSE <<>>

\* A validator that returns at the first failed check.
validateFirstErrorOnly(content) ==
    IF ~HasProductName(content) THEN <<MissingProductName>>
    ELSE IF ~HasObjective(content) THEN <<MissingObjective>>
    ELSE IF ~HasDoneWhen(content) THEN <<MissingDoneWhen>>
    ELSE IF ~HasTodo(content) THEN <<MissingTodo>>
    ELSE IF ~HasStepSections(content) THEN <<MissingSteps>>
    ELSE IF ~HasExecuteNow(content) THEN <<MissingExecuteNow>>
    ELSE <<>>

validateInstallMd(content) ==
    PushIf(~HasProductName(content), MissingProductName)
      \o PushIf(~HasObjective(content), MissingObjective)
      \o PushIf(~HasDoneWhen(content), MissingDoneWhen)
      \o PushIf(~HasTodo(content), MissingTodo)
      \o PushIf(~HasStepSections(content), MissingSteps)
      \o PushIf(~HasExecuteNow(content), MissingExecuteNow)

\* A quick check that asks for every marker of the full validation.
isValidInstallMdStrict(content) ==
    /\ HasProductName(content)
    /\ HasObjective(content)
    /\ HasDoneWhen(content)
    /\ HasTodo(content)
    /\ HasExecuteNow(content)

isValidInstallMd(content) ==
    /\ HasProductName(content)
    /\ HasObjective(content)
    /\ HasDoneWhen(content)
    /\ HasTodo(content)

\* /##\s*TODO\s*\n([\s\S]*?)(?=\n##|\n---|\nEXECUTE NOW|$)/i, the header
\* anchored at i.  After TODO the greedy \s* takes the whole whitespace run
\* and gives characters back until a newline follows it: the capture starts
\* after the last newline of the run.  0 when the header does not match at i.
TodoRunNewlines(s, q) == {j \in q..(SkipWs(s, q) - 1) : s[j] = "\n"}

TodoCaptureStart(s, i) ==
    IF MatchAt(s, i, strHashes) /\ MatchAtCI(s, SkipWs(s, i + 2), strTODO)
       /\ TodoRunNewlines(s, SkipWs(s, i + 2) + 4) # {}
    THEN MaxOf(TodoRunNewlines(s, SkipWs(s, i + 2) + 4)) + 1
    ELSE 0

\* (?=\n##|\n---|\nEXECUTE NOW|$) at e, under the i flag and without m.
TodoSectionEndsAt(s, e) ==
    \/ e = Len(s) + 1
    \/ /\ s[e] = "\n"
       /\ \/ MatchAt(s, e + 1, strHashes)
          \/ MatchAt(s, e + 1, strRule)
          \/ MatchAtCI(s, e + 1, strExecuteNowBare)

\* todoMatch[1] for the leftmost match; the lazy capture ends at the first
\* position where the lookahead holds.
TodoSectionFrom(s, start) ==
    SubSeq(s, start, MinOf({e \in start..(Len(s) + 1) : TodoSectionEndsAt(s, e)}) - 1)

\* /^-\s*\[([ xX])\]\s*(.+)$/m anchored at i: the position of the opening
\* bracket, 0 when the head of the pattern does not match.
CheckboxBracket(t, i) ==
    IF t[i] = "-" /\ LineStart(t, i)
    THEN Call(LAMBDA b : IF b + 2 <= Len(t) /\ t[b] = "[" /\ t[b + 1] \in {" ", "x", "X"}
                            /\ t[b + 2] = "]"
                         THEN b ELSE 0,
              SkipWs(t, i + 1))
    ELSE 0

\* The positions where the \s* after the bracket can stop with .+ matching:
\* it is greedy, so the match uses the last of them.
CheckboxTextStarts(t, b) ==
    {p \in (b + 3)..SkipWs(t, b + 3) : p <= Len(t) /\ t[p] # "\n"}

\* items.push({ text: match[2].trim(), completed: match[1].toLowerCase() === 'x' })
TodoItem(t, b, p) ==
    [text |-> TrimWs(SubSeq(t, p, EndOfLine(t, p) - 1)),
     completed |-> LowerChar(t[b + 1]) = "x"]

\* The exec loop over todoSection from position `from`.
RECURSIVE CheckboxItems(_, _, _)
CheckboxItems(t, starts, from) ==
    IF {i \in starts : i >= from} = {} THEN <<>>
    ELSE Call(LAMBDA i :
                Call(LAMBDA b :
                       IF b = 0 \/ CheckboxTextStarts(t, b) = {}
                       THEN CheckboxItems(t, starts, i + 1)
                       ELSE Call(LAMBDA p : <<TodoItem(t, b, p)>>
                                              \o CheckboxItems(t, starts, EndOfLine(t, p)),
                                 MaxOf(CheckboxTextStarts(t, b))),
                     CheckboxBracket(t, i)),
              MinOf({i \in starts : i >= from}))

CheckboxItemsOf(t) ==
    Call(LAMBDA starts : CheckboxItems(t, starts, 1),
         {i \in 1..Len(t) : t[i] = "-" /\ LineStart(t, i)})

\* A parser that reads checkboxes from the whole file.
extractTodoItemsAnywhere(content) == CheckboxItemsOf(content)

extractTodoItems(content) ==
    Call(LAMBDA heads :
           IF heads = {} THEN <<>>
           ELSE Call(CheckboxItemsOf,
                     TodoSectionFrom(content, TodoCaptureStart(content, MinOf(heads)))),
         {i \in 1..Len(content) : content[i] = "#" /\ TodoCaptureStart(content, i) # 0})

\* parseInstallMd: the fields of the result that depend on validation and on
\* the TODO section.
parseInstallMd(content) ==
    Call(LAMBDA validationErrors :
           [done |-> TRUE,
            todoItems |-> extractTodoItems(content),
            isValid |-> Len(validationErrors) = 0,
            validationErrors |-> validationErrors],
         validateInstallMd(content))

(***************************************************************************)
(* generateInstallMd (lib/install-md-generator).                           *)
(***************************************************************************)
strProductNameFallback ==
    <<"p", "r", "o", "d", "u", "c", "t", "-", "n", "a", "m", "e">>
strPromptHead ==
    <<"I", " ", "w", "a", "n", "t", " ", "y", "o", "u", " ", "t", "o", " ",
      "i", "n", "s", "t", "a", "l", "l", " ">>
strThisSoftware ==
    <<"t", "h", "i", "s", " ", "s", "o", "f", "t", "w", "a", "r", "e">>
strPromptTail ==
    <<" ", "f", "o", "r", " ", "m", "e", ".", " ", "E", "x", "e", "c", "u",
      "t", "e", " ", "a", "l", "l", " ", "t", "h", "e", " ", "s", "t", "e",
      "p", "s", " ", "b", "e", "l", "o", "w", " ", "a", "u", "t", "o", "n",
      "o", "m", "o", "u", "s", "l", "y", ".">>
strObjectiveLabel ==
    <<"O", "B", "J", "E", "C", "T", "I", "V", "E", ":", " ">>
strDoneWhenLabel ==
    <<"D", "O", "N", "E", " ", "W", "H", "E", "N", ":", " ">>
strTodoHeader ==
    <<"#", "#", " ", "T", "O", "D", "O">>
strChecked ==
    <<"[", "x", "]">>
strUnchecked ==
    <<"[", " ", "]">>
\* The code fence; the backtick is written ~ here.
strFence ==
    <<"~", "~", "~">>
strBash ==
    <<"b", "a", "s", "h">>
strExecuteHead ==
    <<"E", "X", "E", "C", "U", "T", "E", " ", "N", "O", "W", ":", " ", "C",
      "o", "m", "p", "l", "e", "t", "e", " ", "t", "h", "e", " ", "a", "b",
      "o", "v", "e", " ", "T", "O", "D", "O", " ", "l", "i", "s", "t", " ",
      "t", "o", " ", "a", "c", "h", "i", "e", "v", "e", ":", " ">>
strSuccessfulInstallation ==
    <<"s", "u", "c", "c", "e", "s", "s", "f", "u", "l", " ", "i", "n", "s",
      "t", "a", "l", "l", "a", "t", "i", "o", "n">>

\* lines.join('\n')
RECURSIVE JoinLinesFrom(_, _)
JoinLinesFrom(lines, k) ==
    IF k > Len(lines) THEN <<>>
    ELSE IF k = Len(lines) THEN lines[k]
    ELSE lines[k] \o <<"\n">> \o JoinLinesFrom(lines, k + 1)

JoinLines(lines) == JoinLinesFrom(lines, 1)

\* a || b on strings: the empty string is falsy.
OrElse(a, b) == IF a # <<>> THEN a ELSE b

\* .replace(/[^a-z0-9]+/g, '-'): every run of other characters becomes one dash.
DashRuns(s) ==
    SelectSeq([k \in 1..Len(s) |->
                  IF s[k] \in AlnumChars THEN s[k]
                  ELSE IF k > 1 /\ s[k - 1] \notin AlnumChars THEN ""
                  ELSE "-"],
              LAMBDA c : c # "")

\* .replace(/^-|-$/g, '')
StripEdgeDashes(s) ==
    SubSeq(s, IF s # <<>> /\ s[1] = "-" THEN 2 ELSE 1,
              IF s # <<>> /\ s[Len(s)] = "-" THEN Len(s) - 1 ELSE Len(s))

slug(productName) ==
    Call(StripEdgeDashes, Call(DashRuns, LowerString(productName)))

HeaderLines(data) ==
    << <<"#", " ">> \o OrElse(slug(data.productName), strProductNameFallback), <<>> >>

DescriptionLines(data) ==
    IF data.description # <<>> THEN << <<">", " ">> \o data.description, <<>> >> ELSE <<>>

PromptLines(data) ==
    << strPromptHead \o OrElse(data.productName, strThisSoftware) \o strPromptTail, <<>> >>

ObjectiveLines(data) ==
    IF data.objective # <<>> THEN << strObjectiveLabel \o data.objective, <<>> >> ELSE <<>>

DoneWhenLines(data) ==
    IF data.doneWhen # <<>> THEN << strDoneWhenLabel \o data.doneWhen, <<>> >> ELSE <<>>

TodoItemLines(items) ==
    Call(Flatten,
         [k \in 1..Len(items) |->
            IF TrimWs(items[k].text) # <<>>
            THEN << <<"-", " ">>
                      \o (IF items[k].completed THEN strChecked ELSE strUnchecked)
                      \o <<" ">> \o items[k].text >>
            ELSE <<>>])

\* The TODO items without the section header.
TodoLinesWithoutHeader(data) == TodoItemLines(data.todoItems) \o << <<>> >>

TodoLines(data) ==
    << strTodoHeader, <<>> >> \o TodoItemLines(data.todoItems) \o << <<>> >>

CodeBlockLines(blocks) ==
    Call(Flatten,
         [k \in 1..Len(blocks) |->
            (IF blocks[k].label # <<>>
             THEN << blocks[k].label \o <<":">>, <<>> >> ELSE <<>>)
              \o << strFence \o OrElse(blocks[k].language, strBash),
                    blocks[k].code, strFence, <<>> >>])

StepLines(steps) ==
    Call(Flatten,
         [k \in 1..Len(steps) |->
            IF TrimWs(steps[k].title) # <<>>
            THEN << <<"#", "#", " ">> \o steps[k].title, <<>> >>
                   \o (IF TrimWs(steps[k].description) # <<>>
                       THEN << steps[k].description, <<>> >> ELSE <<>>)
                   \o CodeBlockLines(steps[k].codeBlocks)
            ELSE <<>>])

ExecuteLines(data) ==
    << strExecuteHead \o OrElse(data.objective, strSuccessfulInstallation) \o <<".">> >>

\* return lines.join('\n').trim() + '\n'
generateInstallMd(data) ==
    Call(LAMBDA lines : TrimWs(JoinLines(lines)) \o <<"\n">>,
         HeaderLines(data) \o DescriptionLines(data) \o PromptLines(data)
           \o ObjectiveLines(data) \o DoneWhenLines(data) \o TodoLines(data)
           \o StepLines(data.steps) \o ExecuteLines(data))

\* validateGeneratorData: the errors array.
ProductNameRequired == "Product name is required"
ObjectiveRequired == "Objective is required"
DoneWhenRequired == "Done When criteria is required"
TodoRequired == "At least one TODO item is required"
StepRequired == "At least one step is required"

validTodos(data) == SelectSeq(data.todoItems, LAMBDA t : TrimWs(t.text) # <<>>)

validSteps(data) == SelectSeq(data.steps, LAMBDA st : TrimWs(st.title) # <<>>)

\* A check of the lists only.
validateListsOnly(data) ==
    PushIf(validTodos(data) = <<>>, TodoRequired)
      \o PushIf(validSteps(data) = <<>>, StepRequired)

validateGeneratorData(data) ==
    PushIf(TrimWs(data.productName) = <<>>, ProductNameRequired)
      \o PushIf(TrimWs(data.objective) = <<>>, ObjectiveRequired)
      \o PushIf(TrimWs(data.doneWhen) = <<>>, DoneWhenRequired)
      \o PushIf(validTodos(data) = <<>>, TodoRequired)
      \o PushIf(validSteps(data) = <<>>, StepRequired)

(***************************************************************************)
(* The install.md scenario: a text is given (assembled from a catalogue of *)
(* lines) or generated from generator data, then parsed and quick-checked. *)
(***************************************************************************)
\* Longest TODO body of a given text, and longest lists of generator data.
MaxBody == 2
MaxTodos == 1
MaxSteps == 2

SeqsUpTo(S, n) == UNION {[1..k -> S] : k \in 0..n}

Line(chars, kind) == [chars |-> chars, kind |-> kind]
ItemLine(chars, text, completed) ==
    [chars |-> chars, kind |-> "item", text |-> text, completed |-> completed]

lineH1 == Line(<<"#", " ", "p">>, "h1")
lineObjective == Line(<<"O", "B", "J", "E", "C", "T", "I", "V", "E", ":", " ", "o">>, "objective")
lineDoneWhen == Line(<<"D", "O", "N", "E", " ", "W", "H", "E", "N", ":", " ", "d">>, "done-when")
lineTodo == Line(<<"#", "#", " ", "T", "O", "D", "O">>, "todo")
lineTodoLower == Line(<<"#", "#", " ", "t", "o", "d", "o">>, "todo-variant")
lineTodoList == Line(<<"#", "#", " ", "T", "O", "D", "O", " ", "l", "i", "s", "t">>, "todo-variant")
lineStepOne == Line(<<"#", "#", " ", "s">>, "step")
lineStepTwo == Line(<<"#", "#", " ", "t">>, "step")
lineRule == Line(<<"-", "-", "-">>, "rule")
lineExecuteNow == Line(<<"E", "X", "E", "C", "U", "T", "E", " ", "N", "O", "W", ":", " ", "e">>, "execute-now")
lineBlank == Line(<<>>, "blank")
lineBlankItem == Line(<<"-", " ", "[", " ", "]", " ">>, "blank-item")
lineIndentedItem == Line(<<" ", " ", "-", " ", "[", " ", "]", " ", "e">>, "indented-item")
itemA == ItemLine(<<"-", " ", "[", " ", "]", " ", "a">>, <<"a">>, FALSE)
itemB == ItemLine(<<"-", " ", "[", "x", "]", " ", "b">>, <<"b">>, TRUE)
itemC == ItemLine(<<"-", " ", "[", "X", "]", " ", "c">>, <<"c">>, TRUE)
itemZ == ItemLine(<<"-", " ", "[", " ", "]", " ", "z">>, <<"z">>, FALSE)

Preambles ==
    {SelectSeq(<<lineH1, lineObjective, lineDoneWhen>>, LAMBDA l : l.kind \in K) :
        K \in SUBSET {"h1", "objective", "done-when"}}
TodoHeaders == {<<>>, <<lineTodo>>, <<lineTodoLower>>, <<lineTodoList>>}
StepTails == {<<>>, <<lineStepOne>>, <<lineStepOne, lineStepTwo>>}
ExecuteTails == {<<>>, <<lineExecuteNow>>}

\* Texts with any subset of the markers.
MarkerDocs ==
    {pre \o hdr \o <<itemA>> \o steps \o ex :
        pre \in Preambles, hdr \in TodoHeaders, steps \in StepTails, ex \in ExecuteTails}

BodyLines == {itemA, itemB, itemC, lineBlank, lineBlankItem, lineIndentedItem}
ChecklistTails ==
    { <<lineStepOne, lineStepTwo>>,
      <<lineStepOne, itemZ, lineStepTwo>>,
      <<lineRule, lineStepOne, itemZ, lineStepTwo>> }

\* Texts with every marker and a TODO body of up to MaxBody lines.
ChecklistDocs ==
    {<<lineH1, lineObjective, lineDoneWhen, lineTodo>> \o body \o tail \o <<lineExecuteNow>> :
        body \in SeqsUpTo(BodyLines, MaxBody), tail \in ChecklistTails}

RawDocs == MarkerDocs \cup ChecklistDocs

TextOf(doc) == JoinLines([k \in 1..Len(doc) |-> doc[k].chars])

GenNames == {<<>>, <<"M", "y", " ", "A", "p", "p">>}
GenDescriptions == {<<>>, <<"d">>}
GenObjectives == {<<>>, <<"o">>}
GenDoneWhens == {<<>>, <<"w">>}
GenTodoItems ==
    { [text |-> <<>>, completed |-> FALSE],
      [text |-> <<"a">>, completed |-> FALSE],
      [text |-> <<"b">>, completed |-> TRUE] }
GenSteps ==
    { [title |-> <<>>, description |-> <<>>, codeBlocks |-> <<>>],
      [title |-> <<"R", "u", "n">>, description |-> <<"x">>,
       codeBlocks |-> << [language |-> <<>>, code |-> <<"c">>, label |-> <<>>] >>],
      [title |-> <<"T", "O", "D", "O">>, description |-> <<>>, codeBlocks |-> <<>>] }

\* InstallMdGeneratorData
GeneratorData ==
    [productName : GenNames, description : GenDescriptions,
     objective : GenObjectives, doneWhen : GenDoneWhens,
     todoItems : SeqsUpTo(GenTodoItems, MaxTodos),
     steps : SeqsUpTo(GenSteps, MaxSteps)]

NoData == [productName |-> <<>>]

DiscoverIdle ==
    /\ inputUrl = <<>>
    /\ strategies = {}
    /\ timeoutMs = 0
    /\ elapsed = 0
    /\ pc = "idle"
    /\ wkQueue = <<>>
    /\ tasks = [s \in Range(PromiseOrder) |-> NoTask]
    /\ allDiscoveredUrls = <<>>
    /\ sitemapQueue = <<>>
    /\ uniqueUrls = <<>>
    /\ batchIdx = 0
    /\ batch = <<>>
    /\ checks = <<>>
    /\ scannedUrls = <<>>
    /\ result = NoResult
    /\ started = {}
    /\ requests = {}
    /\ checksIssued = <<>>
    /\ wkFound = FALSE

InstallInit ==
    /\ DiscoverIdle
    /\ UtilIdle
    /\ ExtractIdle
    /\ RestIdle
    /\ \/ /\ genData \in GeneratorData
          /\ docLines = <<>>
          /\ installMd = <<>>
          /\ ipc = "generate"
       \/ /\ genData = NoData
          /\ docLines \in RawDocs
          /\ installMd = TextOf(docLines)
          /\ ipc = "ready"
    /\ parsed = [done |-> FALSE]
    /\ quick = [done |-> FALSE]

\* installMd = generateInstallMd(data)
Generate ==
    /\ ipc = "generate"
    /\ installMd' = generateInstallMd(genData)
    /\ ipc' = "ready"
    /\ UNCHANGED <<genData, docLines, parsed, quick>>
    /\ UNCHANGED <<discVars, otherVars>>

\* parsed = parseInstallMd(installMd)
Parse ==
    /\ ipc = "ready"
    /\ ~parsed.done
    /\ parsed' = parseInstallMd(installMd)
    /\ UNCHANGED <<ipc, genData, docLines, installMd, quick>>
    /\ UNCHANGED <<discVars, otherVars>>

\* quick = isValidInstallMd(installMd)
QuickCheck ==
    /\ ipc = "ready"
    /\ ~quick.done
    /\ quick' = [done |-> TRUE, value |-> isValidInstallMd(installMd)]
    /\ UNCHANGED <<ipc, genData, docLines, installMd, parsed>>
    /\ UNCHANGED <<discVars, otherVars>>

InstallNext == Generate \/ Parse \/ QuickCheck

InstallSpec == InstallInit /\ [][InstallNext]_vars

(***************************************************************************)
(* Properties of the install.md parser and generator.                      *)
(***************************************************************************)
\* The messages validateInstallMd can push.
ValidationMessages ==
    {MissingProductName, MissingObjective, MissingDoneWhen, MissingTodo,
     MissingSteps, MissingExecuteNow}

\* Whether the check that pushes message m fails on text s, taken alone.
CheckFails(m, s) ==
    CASE m = MissingProductName -> ~HasProductName(s)
      [] m = MissingObjective   -> ~HasObjective(s)
      [] m = MissingDoneWhen    -> ~HasDoneWhen(s)
      [] m = MissingTodo        -> ~HasTodo(s)
      [] m = MissingSteps       -> ~HasStepSections(s)
      [] m = MissingExecuteNow  -> ~HasExecuteNow(s)

Occurrences(seq, x) == Cardinality({k \in 1..Len(seq) : seq[k] = x})

\* C7: the six validation checks are evaluated independently of each other:
\* validationErrors holds exactly one entry for each check that fails on the
\* text and none for a check that passes, and isValid is true exactly when
\* validationErrors is empty.
C7_OneErrorPerFailedCheck ==
    parsed.done =>
        /\ \A m \in ValidationMessages :
              Occurrences(parsed.validationErrors, m)
                = IF CheckFails(m, installMd) THEN 1 ELSE 0
        /\ \A k \in 1..Len(parsed.validationErrors) :
              parsed.validationErrors[k] \in ValidationMessages
        /\ parsed.isValid <=> parsed.validationErrors = <<>>

C7_Witness ==
    /\ parsed.done
    /\ parsed.validationErrors = <<MissingObjective, MissingSteps, MissingExecuteNow>>
    /\ HasProductName(installMd)
    /\ HasDoneWhen(installMd)
    /\ HasTodo(installMd)

Kinds(doc) == {doc[k].kind : k \in 1..Len(doc)}

\* C8: a text with an H1 line, an OBJECTIVE: line, a DONE WHEN: line and a
\* ## TODO heading but no EXECUTE NOW: passes isValidInstallMd and fails
\* parseInstallMd(...).isValid.
C8_QuickCheckIsWeaker ==
    ( /\ docLines # <<>>
      /\ {"h1", "objective", "done-when", "todo"} \subseteq Kinds(docLines)
      /\ "execute-now" \notin Kinds(docLines)
      /\ parsed.done
      /\ quick.done )
    => /\ quick.value
       /\ ~parsed.isValid
       /\ MissingExecuteNow \in Range(parsed.validationErrors)

C8_Witness ==
    /\ docLines # <<>>
    /\ {"h1", "objective", "done-when", "todo"} \subseteq Kinds(docLines)
    /\ "execute-now" \notin Kinds(docLines)
    /\ parsed.done
    /\ quick.done
    /\ quick.value
    /\ parsed.validationErrors = <<MissingExecuteNow>>

\* C9 (as claimed): every text produced by generateInstallMd passes
\* isValidInstallMd.
C9_EveryGeneratedTextPasses ==
    (docLines = <<>> /\ quick.done) => quick.value

\* C9: for generator data with a non-empty objective and a non-empty
\* doneWhen, the text produced by generateInstallMd passes isValidInstallMd.
C9_GeneratedWithObjectiveAndDoneWhenPasses ==
    ( /\ docLines = <<>>
      /\ quick.done
      /\ genData.objective # <<>>
      /\ genData.doneWhen # <<>> )
    => quick.value

C9_Witness ==
    /\ docLines = <<>>
    /\ quick.done
    /\ quick.value
    /\ genData.objective # <<>>
    /\ genData.doneWhen # <<>>
    /\ genData.productName = <<>>
    /\ Len(genData.todoItems) > 0
    /\ Len(genData.steps) > 0

\* handleComplete hands the data to generateInstallMd: validateGeneratorData
\* found no error.
Accepted == docLines = <<>> /\ validateGeneratorData(genData) = <<>>

\* The titled steps whose title is a line that does not start with the word
\* TODO.
NamedSteps ==
    SelectSeq(validSteps(genData),
              LAMBDA st : ~LooksAtTodoWord(st.title, 1) /\ "\n" \notin Range(st.title))

ItemsOf(doc) ==
    [k \in 1..Len(SelectSeq(doc, LAMBDA l : l.kind = "item")) |->
        [text |-> SelectSeq(doc, LAMBDA l : l.kind = "item")[k].text,
         completed |-> SelectSeq(doc, LAMBDA l : l.kind = "item")[k].completed]]

\* The lines of the TODO section: from the first non-blank line after the
\* ## TODO heading (that line included) up to the next line that begins
\* with ##, --- or EXECUTE NOW.
SectionFirst(doc) ==
    {k \in 1..Len(doc) :
        /\ doc[k].kind # "blank"
        /\ \E h \in 1..(k - 1) :
              /\ doc[h].kind = "todo"
              /\ \A j \in (h + 1)..(k - 1) : doc[j].kind = "blank"
              /\ \A j \in 1..(h - 1) : doc[j].kind # "todo"}

SectionLines(doc) ==
    IF SectionFirst(doc) = {} THEN <<>>
    ELSE SubSeq(doc, MinOf(SectionFirst(doc)),
                MinOf({e \in (MinOf(SectionFirst(doc)) + 1)..(Len(doc) + 1) :
                          \/ e = Len(doc) + 1
                          \/ doc[e].kind \in {"todo", "todo-variant", "step", "rule",
                                              "execute-now"}}) - 1)

\* C10 (as claimed): for a valid text, parseInstallMd returns one item for
\* every checklist line of the text, in order.
C10_EveryChecklistLineParsed ==
    (docLines # <<>> /\ parsed.done /\ parsed.isValid)
    => parsed.todoItems = ItemsOf(docLines)

\* C10: for a valid text with a ## TODO heading whose TODO section holds no
\* checkbox with blank text, parseInstallMd returns exactly one item for
\* every checklist line of the TODO section that starts at column 0, in
\* order, completed exactly for [x] and [X]; checklist lines outside the
\* section are not returned.
C10_SectionChecklistLinesParsed ==
    ( /\ docLines # <<>>
      /\ parsed.done
      /\ parsed.isValid
      /\ "todo" \in Kinds(docLines)
      /\ "blank-item" \notin Kinds(SectionLines(docLines)) )
    => parsed.todoItems = ItemsOf(SectionLines(docLines))

C10_Witness ==
    /\ docLines # <<>>
    /\ parsed.done
    /\ parsed.isValid
    /\ "blank-item" \notin Kinds(SectionLines(docLines))
    /\ "indented-item" \in Kinds(SectionLines(docLines))
    /\ itemZ \in Range(docLines)
    /\ parsed.todoItems = <<[text |-> <<"b">>, completed |-> TRUE]>>

(***************************************************************************)
(* Utility functions of lib/url-discovery called on their own: parseUrl    *)
(* on host names, isValidLlmsTxtContent on texts.  Specification UtilSpec. *)
(***************************************************************************)
\* The longest host name, in labels, and the most lines of a text.
MaxLabels == 4
MaxPieces == 2

HostLabels == {"www", "docs", "example", "co", "uk", "com"}

HostArgs ==
    [scheme : {"", "http:"},
     labels : UNION {[1..n -> HostLabels] : n \in 1..MaxLabels}]

\* The string a host name is written as.
HostInput(arg) ==
    (IF arg.scheme = "" THEN <<>> ELSE <<arg.scheme, "/", "/">>) \o JoinDots(arg.labels)

strDoctype == <<"<", "!", "d", "o", "c", "t", "y", "p", "e">>
strHtml == <<"<", "h", "t", "m", "l">>
strHead == <<"<", "h", "e", "a", "d">>

\* The code fence; the backtick is written ~ here.
strCodeFence == <<"~", "~", "~">>

\* s.startsWith(lit)
StartsWith(s, lit) == MatchAt(s, 1, lit)

\* s.includes(lit)
Includes(s, lit) == \E i \in 1..Len(s) : MatchAt(s, i, lit)

\* if (!content || content.length < 10) return false
MinContentLength == 10

\* const trimmed = content.trim().toLowerCase(); the three startsWith tests.
LooksLikeHtml(trimmed) ==
    \/ StartsWith(trimmed, strDoctype)
    \/ StartsWith(trimmed, strHtml)
    \/ StartsWith(trimmed, strHead)

hasMarkdownIndicators(content) ==
    \/ Includes(content, <<"#">>)
    \/ Includes(content, <<">">>)
    \/ Includes(content, <<"-", " ">>)
    \/ Includes(content, <<"*", " ">>)
    \/ Includes(content, <<"[">>)
    \/ Includes(content, strCodeFence)

\* A validator that lets HTML pages through.
isValidLlmsTxtContentNoHtmlTest(content) ==
    IF content = <<>> \/ Len(content) < MinContentLength THEN FALSE
    ELSE hasMarkdownIndicators(content)

isValidLlmsTxtContent(content) ==
    IF content = <<>> \/ Len(content) < MinContentLength THEN FALSE
    ELSE IF LooksLikeHtml(LowerString(TrimWs(content))) THEN FALSE
    ELSE hasMarkdownIndicators(content)

\* Texts: optional leading whitespace, an optional first tag, then lines.
\* html says the tag is one of <!doctype, <html, <head in any case; signal
\* says the piece holds one of the six markdown signals.
Piece(t, sig) == [text |-> t, signal |-> sig]
Tag(t, h, sig) == [text |-> t, html |-> h, signal |-> sig]

pieceHeader == Piece(<<"#", " ", "T", "i", "t", "l", "e">>, TRUE)
pieceQuote == Piece(<<">", " ", "q", "u", "o", "t", "e", "d">>, TRUE)
pieceDash == Piece(<<"-", " ", "i", "t", "e", "m">>, TRUE)
pieceStar == Piece(<<"*", " ", "i", "t", "e", "m">>, TRUE)
pieceLink == Piece(<<"[", "l", "i", "n", "k", "]", "(", "u", ")">>, TRUE)
pieceFence == Piece(<<"~", "~", "~">>, TRUE)
piecePlain == Piece(<<"p", "l", "a", "i", "n", " ", "w", "o", "r", "d", "s">>, FALSE)
pieceHyphen == Piece(<<"w", "e", "l", "l", "-", "k", "n", "o", "w", "n">>, FALSE)
pieceShort == Piece(<<"o", "k">>, FALSE)
tagNone == Tag(<<>>, FALSE, FALSE)
tagDoctype == Tag(
    <<"<", "!", "D", "O", "C", "T", "Y", "P", "E", " ", "h", "t", "m", "l",
      ">">>, TRUE, TRUE)
tagHtml == Tag(<<"<", "h", "t", "m", "l", " ", "l", "a", "n", "g", "=", "e", "n", ">">>, TRUE, TRUE)
tagHead == Tag(<<"<", "H", "e", "a", "d", ">">>, TRUE, TRUE)
tagTitle == Tag(<<"<", "t", "i", "t", "l", "e", ">">>, FALSE, TRUE)

TextPieces == {pieceHeader, pieceQuote, pieceDash, pieceStar, pieceLink, pieceFence, piecePlain, pieceHyphen, pieceShort}
TextTags == {tagNone, tagDoctype, tagHtml, tagHead, tagTitle}
TextPrefixes == {<<>>, <<" ">>, <<"\n", "\t">>}

TextArgs ==
    [prefix : TextPrefixes,
     tag : TextTags,
     pieces : UNION {[1..n -> TextPieces] : n \in 0..MaxPieces}]

RECURSIVE PieceLines(_)
PieceLines(ps) ==
    IF ps = <<>> THEN <<>> ELSE <<"\n">> \o ps[1].text \o PieceLines(Tail(ps))

\* The text an argument spells.
TextInput(arg) == arg.prefix \o arg.tag.text \o PieceLines(arg.pieces)

UtilInit ==
    /\ DiscoverIdle
    /\ InstallIdle
    /\ ExtractIdle
    /\ RestIdle
    /\ \/ fn = "parseUrl" /\ fnArg \in HostArgs
       \/ fn = "isValidLlmsTxtContent" /\ fnArg \in TextArgs
    /\ fnOut = [done |-> FALSE]

CallParseUrl ==
    /\ fn = "parseUrl"
    /\ ~fnOut.done
    /\ fnOut' = [done |-> TRUE, value |-> parseUrl(HostInput(fnArg))]
    /\ UNCHANGED <<fn, fnArg, discVars, instVars, extVars, restVars>>

CallIsValidLlmsTxtContent ==
    /\ fn = "isValidLlmsTxtContent"
    /\ ~fnOut.done
    /\ fnOut' = [done |-> TRUE, value |-> isValidLlmsTxtContent(TextInput(fnArg))]
    /\ UNCHANGED <<fn, fnArg, discVars, instVars, extVars, restVars>>

UtilNext == CallParseUrl \/ CallIsValidLlmsTxtContent

UtilSpec == UtilInit /\ [][UtilNext]_vars

(***************************************************************************)
(* Properties of parseUrl and isValidLlmsTxtContent.                       *)
(***************************************************************************)
\* What the claimed rule gives for labels ls: the compound case when the
\* last two labels are a compound TLD below a third label.
RuleCompound(ls) ==
    Len(ls) >= 3 /\ <<ls[Len(ls) - 1], ls[Len(ls)]>> \in compoundTlds

\* The leading labels left of the base domain, joined; www counts as none.
RuleSubdomain(ls, k) ==
    IF Len(ls) <= k \/ SubSeq(ls, 1, Len(ls) - k) = <<"www">> THEN <<>>
    ELSE JoinDots(SubSeq(ls, 1, Len(ls) - k))

RuleHolds(ls, out) ==
    /\ out.ok
    /\ IF RuleCompound(ls)
       THEN /\ out.tld = <<ls[Len(ls) - 1], ".", ls[Len(ls)]>>
            /\ out.baseDomain = ls[Len(ls) - 2]
            /\ out.subdomain = RuleSubdomain(ls, 3)
       ELSE /\ out.tld = <<ls[Len(ls)]>>
            /\ Len(ls) >= 2
            /\ out.baseDomain = ls[Len(ls) - 1]
            /\ out.subdomain = RuleSubdomain(ls, 2)
    /\ out.hasSubdomain <=> out.subdomain # <<>>
    /\ out.fullDomain = <<out.baseDomain, ".">> \o out.tld

\* C14 (as claimed): for every host name, parseUrl splits the labels by the
\* compound-TLD rule: base domain and TLD from the last two or three labels,
\* the leading labels as subdomain, www as no subdomain, hasSubdomain exactly
\* when the subdomain is non-null, fullDomain = baseDomain.tld.
C14_LabelsSplitByRule ==
    (fn = "parseUrl" /\ fnOut.done) => RuleHolds(fnArg.labels, fnOut.value)

\* C14: the rule holds for every host name of at least two labels; for a
\* host name of a single label, parseUrl returns that label as baseDomain,
\* 'com' as tld, no subdomain, and fullDomain = label.com.
C14_LabelsSplitByRuleFromTwoLabels ==
    (fn = "parseUrl" /\ fnOut.done) =>
        IF Len(fnArg.labels) >= 2 THEN RuleHolds(fnArg.labels, fnOut.value)
        ELSE /\ fnOut.value.ok
             /\ fnOut.value.baseDomain = fnArg.labels[1]
             /\ fnOut.value.tld = <<"com">>
             /\ fnOut.value.subdomain = <<>>
             /\ ~fnOut.value.hasSubdomain
             /\ fnOut.value.fullDomain = <<fnArg.labels[1], ".", "com">>

C14_Witness ==
    /\ fn = "parseUrl"
    /\ fnOut.done
    /\ fnArg.labels = <<"docs", "example", "co", "uk">>
    /\ fnOut.value.baseDomain = "example"
    /\ fnOut.value.tld = <<"co", ".", "uk">>
    /\ fnOut.value.subdomain = <<"docs">>
    /\ fnOut.value.hasSubdomain

\* C15 (as claimed): a text is accepted exactly when it is non-empty, does
\* not start (trimmed, in any case) with <!doctype, <html or <head, and
\* holds a markdown signal.
C15_AcceptedIffNonEmptyNotHtmlWithSignal ==
    (fn = "isValidLlmsTxtContent" /\ fnOut.done) =>
        (fnOut.value <=>
            /\ TextInput(fnArg) # <<>>
            /\ ~fnArg.tag.html
            /\ fnArg.tag.signal \/ \E k \in 1..Len(fnArg.pieces) : fnArg.pieces[k].signal)

\* C15: a text is accepted exactly when it has at least 10 characters,
\* does not start (trimmed, in any case) with <!doctype, <html or <head, and
\* holds a markdown signal.
C15_AcceptedIffTenCharsNotHtmlWithSignal ==
    (fn = "isValidLlmsTxtContent" /\ fnOut.done) =>
        (fnOut.value <=>
            /\ Len(TextInput(fnArg)) >= 10
            /\ ~fnArg.tag.html
            /\ fnArg.tag.signal \/ \E k \in 1..Len(fnArg.pieces) : fnArg.pieces[k].signal)

C15_Witness ==
    /\ fn = "isValidLlmsTxtContent"
    /\ fnOut.done
    /\ fnOut.value
    /\ fnArg.prefix # <<>>
    /\ fnArg.tag = tagTitle
    /\ fnArg.pieces = <<piecePlain>>

(***************************************************************************)
(* Extraction: POST of app/api/extract/route.ts and extractDocumentation   *)
(* of mcp-server/src/extractor.ts.  Specification ExtractSpec.  The fetched *)
(* texts are sequences of one-character strings, the fetched URLs token    *)
(* sequences.                                                              *)
(***************************************************************************)
\* The most '## ' sections of a served text.
MaxSections == 2

\* if (!section || section.length < 20) continue; content.length > 20
MinSectionLength == 20
\* .slice(0, 50)
SlugLength == 50
\* .padStart(2, '0')
PadWidth == 2
\* Math.ceil(text.length / 4)
CharsPerToken == 4

strH2 == <<"#", "#", " ">>

strIntroduction == <<"I", "n", "t", "r", "o", "d", "u", "c", "t", "i", "o", "n">>

strSection == <<"S", "e", "c", "t", "i", "o", "n", " ">>

strDocumentation == <<"D", "o", "c", "u", "m", "e", "n", "t", "a", "t", "i", "o", "n">>

strFallbackFilename ==
    <<"0", "1", "-", "d", "o", "c", "u", "m", "e", "n", "t", "a", "t", "i",
      "o", "n", ".", "m", "d">>

strMd == <<".", "m", "d">>

strHttp == <<"h", "t", "t", "p", ":", "/", "/">>

strHttps == <<"h", "t", "t", "p", "s", ":", "/", "/">>

strSlashLlms == <<"/", "l", "l", "m", "s">>

strDotTxt == <<".", "t", "x", "t">>

strSlashLlmsTxt == <<"/", "l", "l", "m", "s", ".", "t", "x", "t">>

strLlmsTxt == <<"l", "l", "m", "s", ".", "t", "x", "t">>

strLlms == <<"l", "l", "m", "s">>

strLlmsDash == <<"l", "l", "m", "s", "-">>

strDashFull == <<"-", "f", "u", "l", "l">>

strDashFullTxt == <<"-", "f", "u", "l", "l", ".", "t", "x", "t">>


estimateTokens(text) == (Len(text) + CharsPerToken - 1) \div CharsPerToken

\* String(n)
RECURSIVE NumberString(_)
NumberString(n) ==
    IF n < 10 THEN <<digits[n + 1]>>
    ELSE NumberString(n \div 10) \o <<digits[(n % 10) + 1]>>

\* .padStart(PadWidth, '0')
RECURSIVE PadStart(_)
PadStart(s) == IF Len(s) >= PadWidth THEN s ELSE PadStart(<<"0">> \o s)

slugify(text) ==
    Slice(Call(StripEdgeDashes, Call(DashRuns, LowerString(text))), 0, SlugLength)

\* s.endsWith(lit)
EndsWith(s, lit) == MatchAt(s, Len(s) - Len(lit) + 1, lit)

\* s.split('\n'), from position from on.
RECURSIVE SplitLinesFrom(_, _)
SplitLinesFrom(s, from) ==
    Call(LAMBDA e : IF e > Len(s) THEN <<SubSeq(s, from, Len(s))>>
                    ELSE <<SubSeq(s, from, e - 1)>> \o SplitLinesFrom(s, e + 1),
         EndOfLine(s, from))

SplitLines(s) == SplitLinesFrom(s, 1)

\* s.split(/^## /m), from position from on: the text is cut at every '## '
\* that starts a line, the separator itself is dropped.
\* The first position from from on where /^## /m matches; 0 when there is none.
NextSectionStart(s, from) ==
    LET starts == {i \in from..Len(s) : LineStart(s, i) /\ MatchAt(s, i, strH2)}
    IN  IF starts = {} THEN 0 ELSE MinOf(starts)

RECURSIVE SplitSectionsFrom(_, _)
SplitSectionsFrom(s, from) ==
    Call(LAMBDA i : IF i = 0 THEN <<SubSeq(s, from, Len(s))>>
                    ELSE <<SubSeq(s, from, i - 1)>>
                         \o SplitSectionsFrom(s, i + Len(strH2)),
         NextSectionStart(s, from))

SplitSections(s) == SplitSectionsFrom(s, 1)

(***************************************************************************)
(* detectLinkedLlmsTxtFiles: the matches of                                *)
(*   /https?:\/\/[^\s<>"']+\/llms[^\/\s<>"']*\.txt/gi                      *)
(* with the engine's greedy quantifiers.                                   *)
(***************************************************************************)
\* [^\s<>"']
IsUrlChar(c) == ~IsWs(c) /\ c \notin {"<", ">", "\"", "'"}
\* [^\/\s<>"']
IsNameChar(c) == IsUrlChar(c) /\ c # "/"

\* The position after https?:\/\/ matched at i; 0 when it does not match.
SchemeEnd(s, i) ==
    IF MatchAtCI(s, i, strHttps) THEN i + Len(strHttps)
    ELSE IF MatchAtCI(s, i, strHttp) THEN i + Len(strHttp)
    ELSE 0

\* The last position of the run of URL characters that starts at j.
UrlRunEnd(s, j) ==
    CHOOSE e \in (j - 1)..Len(s) :
        /\ \A k \in j..e : IsUrlChar(s[k])
        /\ e = Len(s) \/ ~IsUrlChar(s[e + 1])

NameRunEnd(s, j) ==
    CHOOSE e \in (j - 1)..Len(s) :
        /\ \A k \in j..e : IsNameChar(s[k])
        /\ e = Len(s) \/ ~IsNameChar(s[e + 1])

\* The last position of \/llms[^\/\s<>"']*\.txt matched at p, the star
\* taking as much as it can; 0 when it does not match.
LlmsFileEnd(s, p) ==
    IF ~MatchAtCI(s, p, strSlashLlms) THEN 0
    ELSE LET from == p + Len(strSlashLlms)
             qs == {q \in from..(NameRunEnd(s, from) - Len(strDotTxt) + 1) :
                       MatchAtCI(s, q, strDotTxt)}
         IN  IF qs = {} THEN 0 ELSE MaxOf(qs) + Len(strDotTxt) - 1

\* The last position of the whole pattern matched at i, the plus taking as
\* much as it can; 0 when it does not match.
LlmsUrlEnd(s, i) ==
    IF SchemeEnd(s, i) = 0 THEN 0
    ELSE LET j == SchemeEnd(s, i)
             ps == {p \in (j + 1)..UrlRunEnd(s, j) : LlmsFileEnd(s, p) # 0}
         IN  IF ps = {} THEN 0 ELSE LlmsFileEnd(s, MaxOf(ps))

\* content.matchAll(urlPattern), from position from on.
\* The first position from from on where the pattern matches; 0 when there
\* is none.
NextLlmsUrl(s, from) ==
    LET is == {i \in from..Len(s) : LlmsUrlEnd(s, i) # 0}
    IN  IF is = {} THEN 0 ELSE MinOf(is)

RECURSIVE LlmsUrlsFrom(_, _)
LlmsUrlsFrom(s, from) ==
    Call(LAMBDA i : IF i = 0 THEN <<>>
                    ELSE Call(LAMBDA e : <<SubSeq(s, i, e)>> \o LlmsUrlsFrom(s, e + 1),
                              LlmsUrlEnd(s, i)),
         NextLlmsUrl(s, from))

\* url.split('/').pop()
LastSegment(url) ==
    LET slashes == {k \in 1..Len(url) : url[k] = "/"}
    IN  IF slashes = {} THEN url ELSE SubSeq(url, MaxOf(slashes) + 1, Len(url))

DropFirst(s, n) == SubSeq(s, n + 1, Len(s))
DropLast(s, n) == SubSeq(s, 1, Len(s) - n)

\* .replace(/^llms-?/, '')
StripLlmsPrefix(f) ==
    IF StartsWith(f, strLlmsDash) THEN DropFirst(f, Len(strLlmsDash))
    ELSE IF StartsWith(f, strLlms) THEN DropFirst(f, Len(strLlms))
    ELSE f

\* .replace(/-full\.txt$/, '')
StripFullTxt(f) == IF EndsWith(f, strDashFullTxt) THEN DropLast(f, Len(strDashFullTxt)) ELSE f

\* .replace(/\.txt$/, '')
StripTxt(f) == IF EndsWith(f, strDotTxt) THEN DropLast(f, Len(strDotTxt)) ELSE f

\* .replace(/-/g, ' ')
DashesToSpaces(f) == [k \in 1..Len(f) |-> IF f[k] = "-" THEN " " ELSE f[k]]

BaseName(filename) ==
    OrElse(TrimWs(Call(DashesToSpaces,
                       Call(StripTxt, Call(StripFullTxt, StripLlmsPrefix(filename))))),
           strDocumentation)

\* baseName.charAt(0).toUpperCase() + baseName.slice(1)
Capitalize(s) ==
    IF s = <<>> THEN s
    ELSE IF s[1] \in Range(lowerCase)
         THEN <<upperCase[CHOOSE k \in 1..Len(lowerCase) : lowerCase[k] = s[1]]>> \o Tail(s)
         ELSE s

\* The LinkedLlmsTxt record of one matched URL (its description is not
\* carried: no document is derived from it).
LinkedFile(url) ==
    Call(LAMBDA filename :
             Call(LAMBDA baseName :
                      [url |-> url,
                       name |-> Capitalize(baseName),
                       baseKey |-> LowerString(baseName),
                       isFull |-> Includes(filename, strDashFull),
                       content |-> <<>>],
                  BaseName(filename)),
         OrElse(LastSegment(url), strLlmsTxt))

\* files[0] without the sort.
FirstOfGroup(files) == files[1]

\* files.sort(full first, stable); files[0]
PreferFull(files) ==
    IF \E k \in 1..Len(files) : files[k].isFull
    THEN files[MinOf({k \in 1..Len(files) : files[k].isFull})]
    ELSE files[1]

\* url.endsWith('/llms.txt') || url === `${baseUrl}/llms.txt`: the second
\* test is a case of the first.
IsMainLlmsTxt(url) == EndsWith(url, strSlashLlmsTxt)

\* The files of the matched URLs, each URL once, the main llms.txt left out.
LinkedCandidates(urls) ==
    SelectSeq([k \in 1..Len(urls) |-> LinkedFile(urls[k])],
              LAMBDA f : ~IsMainLlmsTxt(f.url))

\* filesByBase, in the order the base names were met, and of each its
\* preferred file.
PreferredByBase(files) ==
    Call(LAMBDA keys :
             [g \in 1..Len(keys) |->
                 PreferFull(SelectSeq(files, LAMBDA f : f.baseKey = keys[g]))],
         UniqueSeq([k \in 1..Len(files) |-> files[k].baseKey]))

detectLinkedLlmsTxtFiles(content) ==
    Call(PreferredByBase,
         Call(LinkedCandidates, Call(UniqueSeq, LlmsUrlsFrom(content, 1))))

(***************************************************************************)
(* Segmentation into documents.                                            *)
(***************************************************************************)
\* A primary document has no sourceUrl (<<>>).
Document(filename, title, content, source) ==
    [filename |-> filename, title |-> title, content |-> content,
     tokens |-> estimateTokens(content), sourceUrl |-> source]

\* i === 0 ? section : `## ${lines[0]}\n\n${lines.slice(1).join('\n').trim()}`
SectionBodyOnly(i, section, lines) ==
    IF i = 0 THEN section ELSE TrimWs(JoinLines(Tail(lines)))

SectionContent(i, section, lines) ==
    IF i = 0 THEN section
    ELSE strH2 \o lines[1] \o <<"\n", "\n">> \o TrimWs(JoinLines(Tail(lines)))

\* i === 0 ? 'Introduction' : (lines[0] || `Section ${i}`)
PrimaryTitle(i, lines) ==
    IF i = 0 THEN strIntroduction ELSE OrElse(lines[1], strSection \o NumberString(i))

\* `${String(documents.length + 1).padStart(2, '0')}-${slugify(title)}.md`
FilenameWithoutIndex(n, title) == slugify(title) \o strMd

PrimaryFilename(n, title) ==
    PadStart(NumberString(n + 1)) \o <<"-">> \o slugify(title) \o strMd

\* i === 0 ? linked.name || 'Documentation' : (lines[0] || `${linked.name} Section ${i}`)
LinkedSectionTitle(file, i, lines) ==
    IF i = 0 THEN OrElse(file.name, strDocumentation)
    ELSE OrElse(lines[1], file.name \o <<" ">> \o strSection \o NumberString(i))

\* slugify(linked.name || linkedFilename.replace('.txt', ''))
LinkedSlug(file) ==
    slugify(OrElse(file.name,
                   Call(StripTxt, OrElse(LastSegment(file.url), <<"l", "i", "n", "k", "e", "d">>))))

LinkedFilename(n, file, sectionTitle) ==
    PadStart(NumberString(n + 1)) \o <<"-">> \o LinkedSlug(file) \o <<"-">>
    \o slugify(sectionTitle) \o strMd

\* The document of sections[i], documents.length being n.
PrimaryDocument(i, section, n) ==
    Call(LAMBDA lines : Document(PrimaryFilename(n, PrimaryTitle(i, lines)),
                                 PrimaryTitle(i, lines),
                                 SectionContent(i, section, lines), <<>>),
         SplitLines(section))

\* if (!section || section.length < 20) continue
IsSkipped(section) == section = <<>> \/ Len(section) < MinSectionLength

\* The documents the loop pushes from sections[i] on, documents.length
\* being n when it gets there.
RECURSIVE PrimaryDocumentsFrom(_, _, _)
PrimaryDocumentsFrom(sections, i, n) ==
    IF i >= Len(sections) THEN <<>>
    ELSE Call(LAMBDA section :
                  IF IsSkipped(section) THEN PrimaryDocumentsFrom(sections, i + 1, n)
                  ELSE <<PrimaryDocument(i, section, n)>>
                       \o PrimaryDocumentsFrom(sections, i + 1, n + 1),
              TrimWs(sections[i + 1]))

LinkedDocument(file, i, section, n) ==
    Call(LAMBDA lines :
             Document(LinkedFilename(n, file, LinkedSectionTitle(file, i, lines)),
                      file.name \o <<":", " ">> \o LinkedSectionTitle(file, i, lines),
                      SectionContent(i, section, lines), file.url),
         SplitLines(section))

RECURSIVE LinkedDocumentsFrom(_, _, _, _)
LinkedDocumentsFrom(file, sections, i, n) ==
    IF i >= Len(sections) THEN <<>>
    ELSE Call(LAMBDA section :
                  IF IsSkipped(section) THEN LinkedDocumentsFrom(file, sections, i + 1, n)
                  ELSE <<LinkedDocument(file, i, section, n)>>
                       \o LinkedDocumentsFrom(file, sections, i + 1, n + 1),
              TrimWs(sections[i + 1]))

\* for (const linked of linkedLlmsTxtData), from files[k] on: a file
\* without content is skipped.
RECURSIVE AllLinkedDocumentsFrom(_, _, _)
AllLinkedDocumentsFrom(files, k, n) ==
    IF k > Len(files) THEN <<>>
    ELSE IF files[k].content = <<>> THEN AllLinkedDocumentsFrom(files, k + 1, n)
    ELSE Call(LAMBDA docs : docs \o AllLinkedDocumentsFrom(files, k + 1, n + Len(docs)),
              LinkedDocumentsFrom(files[k], SplitSections(files[k].content), 0, n))

FallbackDocument(content) ==
    Document(strFallbackFilename, strDocumentation, content, <<>>)

\* if (documents.length === 0 && content.length > 20): documents holds the
\* documents of the linked files by then.
WithFallback(docs, content) ==
    IF docs = <<>> /\ Len(content) > MinSectionLength
    THEN <<FallbackDocument(content)>>
    ELSE docs

\* route.ts l.314-375.
DocumentsOf(content, files) ==
    Call(LAMBDA primary :
             WithFallback(primary \o AllLinkedDocumentsFrom(files, 1, Len(primary)),
                          content),
         PrimaryDocumentsFrom(SplitSections(content), 0, 0))


(***************************************************************************)
(* The texts a server answers with.  A text is an introduction followed by *)
(* '## ' sections; each piece is written with what it spells (text, or     *)
(* header and body), its text without the surrounding whitespace (core),   *)
(* the first line and the remaining lines of the chunk once the whitespace *)
(* around each is dropped (title, rest), and the number of characters of   *)
(* the chunk without the surrounding whitespace (size).                    *)
(***************************************************************************)
introNone ==
    [text |-> <<>>,
     core |-> <<>>,
     size |-> 0]

introLong ==
    [text |->
        <<"#", " ", "S", "i", "t", "e", "\n", "\n", ">", " ", "D", "o",
          "c", "u", "m", "e", "n", "t", "a", "t", "i", "o", "n", " ", "o",
          "f", " ", "t", "h", "e", " ", "s", "i", "t", "e", ".", "\n">>,
     core |->
        <<"#", " ", "S", "i", "t", "e", "\n", "\n", ">", " ", "D", "o",
          "c", "u", "m", "e", "n", "t", "a", "t", "i", "o", "n", " ", "o",
          "f", " ", "t", "h", "e", " ", "s", "i", "t", "e", ".">>,
     size |-> 36]

secGuide ==
    [header |-> <<"G", "u", "i", "d", "e">>,
     body |->
        <<"\n", "I", "n", "s", "t", "a", "l", "l", " ", "t", "h", "e", " ",
          "p", "a", "c", "k", "a", "g", "e", " ", "f", "i", "r", "s", "t",
          ".", "\n", "\n">>,
     title |-> <<"G", "u", "i", "d", "e">>,
     rest |->
        <<"I", "n", "s", "t", "a", "l", "l", " ", "t", "h", "e", " ", "p",
          "a", "c", "k", "a", "g", "e", " ", "f", "i", "r", "s", "t", ".">>,
     size |-> 33]

secApi ==
    [header |-> <<"A", "P", "I">>,
     body |-> <<"S", "e", "e", " ", "b", "e", "l", "o", "w", ".", "\n">>,
     title |-> <<"A", "P", "I">>,
     rest |-> <<"S", "e", "e", " ", "b", "e", "l", "o", "w", ".">>,
     size |-> 14]

secBlankHeader ==
    [header |-> <<>>,
     body |->
        <<"P", "l", "a", "i", "n", " ", "t", "e", "x", "t", " ", "u", "n",
          "d", "e", "r", " ", "a", "n", " ", "e", "m", "p", "t", "y", " ",
          "h", "e", "a", "d", "e", "r", ".", "\n", "M", "o", "r", "e", " ",
          "t", "e", "x", "t", ".", "\n">>,
     title |->
        <<"P", "l", "a", "i", "n", " ", "t", "e", "x", "t", " ", "u", "n",
          "d", "e", "r", " ", "a", "n", " ", "e", "m", "p", "t", "y", " ",
          "h", "e", "a", "d", "e", "r", ".">>,
     rest |-> <<"M", "o", "r", "e", " ", "t", "e", "x", "t", ".">>,
     size |-> 44]

secLinkOnly ==
    [header |->
        <<"h", "t", "t", "p", ":", "/", "/", "h", "/", "l", "l", "m", "s",
          "-", "a", ".", "t", "x", "t">>,
     body |-> <<>>,
     title |->
        <<"h", "t", "t", "p", ":", "/", "/", "h", "/", "l", "l", "m", "s",
          "-", "a", ".", "t", "x", "t">>,
     rest |-> <<>>,
     size |-> 19]

secLinks ==
    [header |-> <<"L", "i", "n", "k", "s">>,
     body |->
        <<"-", " ", "h", "t", "t", "p", "s", ":", "/", "/", "e", "x", "a",
          "m", "p", "l", "e", ".", "c", "o", "m", "/", "l", "l", "m", "s",
          "-", "s", "d", "k", ".", "t", "x", "t", "\n", "-", " ", "h", "t",
          "t", "p", "s", ":", "/", "/", "e", "x", "a", "m", "p", "l", "e",
          ".", "c", "o", "m", "/", "l", "l", "m", "s", "-", "s", "d", "k",
          "-", "f", "u", "l", "l", ".", "t", "x", "t", "\n", "-", " ", "h",
          "t", "t", "p", "s", ":", "/", "/", "e", "x", "a", "m", "p", "l",
          "e", ".", "c", "o", "m", "/", "l", "l", "m", "s", ".", "t", "x",
          "t", "\n">>,
     title |-> <<"L", "i", "n", "k", "s">>,
     rest |->
        <<"-", " ", "h", "t", "t", "p", "s", ":", "/", "/", "e", "x", "a",
          "m", "p", "l", "e", ".", "c", "o", "m", "/", "l", "l", "m", "s",
          "-", "s", "d", "k", ".", "t", "x", "t", "\n", "-", " ", "h", "t",
          "t", "p", "s", ":", "/", "/", "e", "x", "a", "m", "p", "l", "e",
          ".", "c", "o", "m", "/", "l", "l", "m", "s", "-", "s", "d", "k",
          "-", "f", "u", "l", "l", ".", "t", "x", "t", "\n", "-", " ", "h",
          "t", "t", "p", "s", ":", "/", "/", "e", "x", "a", "m", "p", "l",
          "e", ".", "c", "o", "m", "/", "l", "l", "m", "s", ".", "t", "x",
          "t">>,
     size |-> 111]

linkedLong ==
    <<"#", " ", "S", "D", "K", "\n", "\n", "T", "h", "e", " ", "r", "e",
      "f", "e", "r", "e", "n", "c", "e", " ", "o", "f", " ", "t", "h", "e",
      " ", "S", "D", "K", ".", "\n", "#", "#", " ", "G", "u", "i", "d",
      "e", "\n", "I", "n", "s", "t", "a", "l", "l", " ", "t", "h", "e",
      " ", "p", "a", "c", "k", "a", "g", "e", " ", "f", "i", "r", "s", "t",
      ".", "\n">>


Intros == {introNone, introLong}
SectionPieces == {secGuide, secApi, secBlankHeader, secLinkOnly, secLinks}

PrimaryBodies ==
    [intro : Intros, sections : UNION {[1..n -> SectionPieces] : n \in 0..MaxSections}]

EmptyBody == [intro |-> introNone, sections |-> <<>>]

\* <<>> stands for a failed fetch as well as for an empty file.
LinkedBodies == {<<>>, linkedLong}

SectionText(piece) == strH2 \o piece.header \o <<"\n">> \o piece.body

RECURSIVE SectionsText(_)
SectionsText(ps) ==
    IF ps = <<>> THEN <<>> ELSE SectionText(ps[1]) \o SectionsText(Tail(ps))

\* The text a body spells.
PrimaryText(body) == body.intro.text \o SectionsText(body.sections)

(***************************************************************************)
(* The fetch loops.                                                        *)
(***************************************************************************)
\* The labels of urlObj.hostname of the request.
ExtractLabels == <<"example", "com">>

\* `${urlObj.protocol}//${urlObj.host}`
baseUrlOf(labels) == Origin("https:", JoinDots(labels))

\* domainParts.length > 2 ? domainParts.slice(-2).join('.') : hostname
rootDomainOf(labels) ==
    JoinDots(IF Len(labels) > 2 THEN SubSeq(labels, Len(labels) - 1, Len(labels))
             ELSE labels)

\* const subdomains of route.ts
extractSubdomains(labels) ==
    <<baseUrlOf(labels),
      Origin("https:", <<"docs", ".">> \o rootDomainOf(labels)),
      Origin("https:", <<"api-docs", ".">> \o rootDomainOf(labels)),
      Origin("https:", <<"developer", ".">> \o rootDomainOf(labels)),
      Origin("https:", <<"api", ".">> \o rootDomainOf(labels))>>

TryUrl(base, file) == base \o <<"/", file>>

\* const urlsToTry of extractor.ts
urlsToTry(labels) ==
    <<TryUrl(baseUrlOf(labels), "llms-full.txt"), TryUrl(baseUrlOf(labels), "llms.txt")>>

\* The URLs of a fetch loop: extractor.ts has one loop over urlsToTry,
\* route.ts a loop over the llms-full.txt of every subdomain and then, if
\* there is no content, a loop over their llms.txt.
LoopUrls(i, loop, labels) ==
    IF i = "mcp" THEN urlsToTry(labels)
    ELSE [k \in 1..Len(extractSubdomains(labels)) |->
             TryUrl(extractSubdomains(labels)[k],
                    IF loop = "loop1" THEN "llms-full.txt" ELSE "llms.txt")]

\* What a fetch can bring: it throws, it answers with a status that is not
\* ok, or it answers ok with a text (the empty text included).
Responses ==
    [kind : {"throws", "not_ok"}, body : {EmptyBody}] \cup [kind : {"ok"}, body : PrimaryBodies]

Got(response) ==
    IF response.kind # "ok" THEN "nothing"
    ELSE IF PrimaryText(response.body) = <<>> THEN "empty"
    ELSE "text"

\* 404 of route.ts, the Error thrown by extractor.ts.
NotFound(i) ==
    IF i = "route" THEN [kind |-> "error", status |-> 404]
    ELSE [kind |-> "throws", status |-> 0]

ExtractInit ==
    /\ DiscoverIdle
    /\ InstallIdle
    /\ UtilIdle
    /\ RestIdle
    /\ xpc = "loop1"
    /\ impl \in {"route", "mcp"}
    /\ tryIdx = 1
    /\ requested = <<>>
    /\ served = [intro |-> <<>>, sections |-> <<>>]
    /\ rawContent = <<>>
    /\ sourceUrl = <<>>
    /\ linked = <<>>
    /\ documents = <<>>
    /\ xresult = [kind |-> "pending"]

\* One iteration of a fetch loop and, when the loop ends with it, the code
\* up to the next await or to the return.  extractor.ts goes on in
\* parser.js with the content it holds.
Fetch ==
    /\ xpc \in {"loop1", "loop2"}
    /\ \E response \in Responses :
         LET urls == LoopUrls(impl, xpc, ExtractLabels)
             ok == response.kind = "ok"
             content == IF ok THEN PrimaryText(response.body) ELSE rawContent
             loopEnds == ok \/ tryIdx = Len(urls)
         IN  /\ requested' = Append(requested, [url |-> urls[tryIdx], got |-> Got(response)])
             /\ rawContent' = content
             /\ sourceUrl' = IF ok THEN urls[tryIdx] ELSE sourceUrl
             /\ served' = IF ok THEN response.body ELSE served
             /\ IF ~loopEnds
                THEN /\ tryIdx' = tryIdx + 1
                     /\ UNCHANGED <<xpc, linked, documents, xresult>>
                ELSE IF impl = "route" /\ xpc = "loop1" /\ content = <<>>
                THEN /\ tryIdx' = 1
                     /\ xpc' = "loop2"
                     /\ UNCHANGED <<linked, documents, xresult>>
                ELSE IF content = <<>>
                THEN /\ xpc' = "done"
                     /\ xresult' = NotFound(impl)
                     /\ UNCHANGED <<tryIdx, linked, documents>>
                ELSE IF impl = "mcp"
                THEN /\ xpc' = "done"
                     /\ xresult' = [kind |-> "fetched", status |-> 0]
                     /\ UNCHANGED <<tryIdx, linked, documents>>
                ELSE \E files \in {detectLinkedLlmsTxtFiles(content)} :
                       IF files # <<>>
                       THEN /\ xpc' = "linked"
                            /\ linked' = files
                            /\ UNCHANGED <<tryIdx, documents, xresult>>
                       ELSE /\ xpc' = "done"
                            /\ documents' = DocumentsOf(content, <<>>)
                            /\ xresult' = [kind |-> "ok", status |-> 200]
                            /\ UNCHANGED <<tryIdx, linked>>
    /\ UNCHANGED <<impl, discVars, instVars, utilVars, restVars>>

\* fetchAllLinkedLlmsTxt settles, and the rest of the handler runs.
LinkedFetch ==
    /\ xpc = "linked"
    /\ \E bodies \in [1..Len(linked) -> LinkedBodies] :
         LET fetched == [k \in 1..Len(linked) |-> [linked[k] EXCEPT !.content = bodies[k]]]
         IN  /\ linked' = fetched
             /\ documents' = DocumentsOf(rawContent, fetched)
    /\ xpc' = "done"
    /\ xresult' = [kind |-> "ok", status |-> 200]
    /\ UNCHANGED <<impl, tryIdx, requested, served, rawContent, sourceUrl,
                   discVars, instVars, utilVars, restVars>>

ExtractNext == Fetch \/ LinkedFetch

ExtractSpec == ExtractInit /\ [][ExtractNext]_vars

(***************************************************************************)
(* Properties of the extraction.                                           *)
(***************************************************************************)
\* The web handler answered with documents.
Extracted == xpc = "done" /\ impl = "route" /\ xresult.kind = "ok"

\* The fetch loops are over.
Fetched == xpc \in {"linked", "done"}

IsFullUrl(u) == u[Len(u)] = "llms-full.txt"

\* The documents of the primary text.
PrimaryDocuments == SelectSeq(documents, LAMBDA d : d.sourceUrl = <<>>)

TitleAndContent(docs) ==
    [k \in 1..Len(docs) |-> [title |-> docs[k].title, content |-> docs[k].content]]

RECURSIVE ConcatContent(_)
ConcatContent(docs) ==
    IF docs = <<>> THEN <<>> ELSE docs[1].content \o ConcatContent(Tail(docs))

\* What a served text keeps of its pieces: the introduction as it is, a
\* section as '## ', its header (the first line that is not blank), a blank
\* line and the remaining lines, each without the whitespace around it; a
\* piece of fewer than MinSectionLength characters is not kept.
KeptIntro(body) ==
    IF body.intro.size >= MinSectionLength
    THEN <<[title |-> strIntroduction, content |-> body.intro.core]>>
    ELSE <<>>

KeptSection(piece) ==
    LET header == IF piece.header # <<>> THEN piece.header ELSE piece.title
    IN  [title |-> header,
         content |-> strH2 \o header \o <<"\n", "\n">> \o piece.rest]

RECURSIVE KeptSections(_)
KeptSections(ps) ==
    IF ps = <<>> THEN <<>>
    ELSE (IF ps[1].size >= MinSectionLength THEN <<KeptSection(ps[1])>> ELSE <<>>)
         \o KeptSections(Tail(ps))

Kept(body) == KeptIntro(body) \o KeptSections(body.sections)

\* C11: all the filenames of the documents of one extraction (those of the
\* primary text and those of every fetched linked file) are pairwise
\* distinct.
C11_FilenamesPairwiseDistinct ==
    \A i, j \in 1..Len(documents) :
        i # j => documents[i].filename # documents[j].filename

\* An extraction with two sections of the same title and the documents of a
\* linked file.
C11_Witness ==
    /\ Extracted
    /\ \E i, j \in 1..Len(documents) :
          /\ i < j
          /\ documents[i].title = documents[j].title
          /\ documents[i].sourceUrl = <<>>
          /\ documents[j].sourceUrl = <<>>
    /\ \E k \in 1..Len(documents) : documents[k].sourceUrl # <<>>

\* C12 as stated: the contents of the documents of the primary text, put
\* together in order, hold the header and the body of every '## ' section
\* of the text, and its introduction.
C12_EverySectionReproduced ==
    Extracted =>
        LET all == ConcatContent(PrimaryDocuments)
        IN  /\ served.intro.core # <<>> => Includes(all, served.intro.core)
            /\ \A k \in 1..Len(served.sections) :
                  /\ Includes(all, strH2 \o served.sections[k].header)
                  /\ Includes(all, served.sections[k].rest)

\* C12: when the primary text has a piece of at least MinSectionLength
\* characters (whitespace around it not counted), its documents are, in
\* order, exactly the pieces of that length: the introduction under the
\* title 'Introduction' with its text, every section with its header as
\* title and '## header', a blank line and its body as content; shorter
\* pieces have no document.
C12_KeptSectionsReproduced ==
    (Extracted /\ Kept(served) # <<>>) =>
        TitleAndContent(PrimaryDocuments) = Kept(served)

\* An introduction and a section with blank lines around its body are
\* kept, a short section is dropped.
C12_Witness ==
    /\ Extracted
    /\ served.intro = introLong
    /\ served.sections = <<secGuide, secApi>>
    /\ Len(PrimaryDocuments) = 2
    /\ PrimaryDocuments[2].content = strH2 \o secGuide.header \o <<"\n", "\n">> \o secGuide.rest

\* C13: when no piece of the primary text makes a document and the text has
\* more than MinSectionLength characters, the documents hold exactly one
\* document titled 'Documentation', and its content is the whole text.
C13_FallbackWhenNoPrimaryDocument ==
    (Extracted /\ Kept(served) = <<>> /\ Len(rawContent) > MinSectionLength) =>
        /\ Cardinality({k \in 1..Len(documents) :
                           documents[k].title = strDocumentation}) = 1
        /\ \E k \in 1..Len(documents) :
              /\ documents[k].title = strDocumentation
              /\ documents[k].content = rawContent

\* C16: once the fetch loops are over, every request of an llms.txt comes
\* after a request of llms-full.txt and after no llms-full.txt that brought
\* a text; when no llms-full.txt brought a text, llms.txt was requested; and
\* the sourceUrl is the URL of the request that brought the content.
C16_FullFirstThenLlmsTxt ==
    Fetched =>
        /\ \A k \in 1..Len(requested) :
              ~IsFullUrl(requested[k].url) =>
                  /\ \E j \in 1..(k - 1) : IsFullUrl(requested[j].url)
                  /\ \A j \in 1..(k - 1) :
                        IsFullUrl(requested[j].url) => requested[j].got # "text"
        /\ (\A k \in 1..Len(requested) :
               IsFullUrl(requested[k].url) => requested[k].got # "text")
           => \E k \in 1..Len(requested) : ~IsFullUrl(requested[k].url)
        /\ rawContent # <<>> =>
              /\ requested[Len(requested)].url = sourceUrl
              /\ requested[Len(requested)].got = "text"

\* The llms*.txt URLs written in the pieces of the catalogue, with the base
\* name each stands for and whether it is a -full variant.
urlLlmsA ==
    <<"h", "t", "t", "p", ":", "/", "/", "h", "/", "l", "l", "m", "s", "-",
      "a", ".", "t", "x", "t">>
urlLlmsSdk ==
    <<"h", "t", "t", "p", "s", ":", "/", "/", "e", "x", "a", "m", "p", "l",
      "e", ".", "c", "o", "m", "/", "l", "l", "m", "s", "-", "s", "d", "k",
      ".", "t", "x", "t">>
urlLlmsSdkFull ==
    <<"h", "t", "t", "p", "s", ":", "/", "/", "e", "x", "a", "m", "p", "l",
      "e", ".", "c", "o", "m", "/", "l", "l", "m", "s", "-", "s", "d", "k",
      "-", "f", "u", "l", "l", ".", "t", "x", "t">>
urlLlmsMain ==
    <<"h", "t", "t", "p", "s", ":", "/", "/", "e", "x", "a", "m", "p", "l",
      "e", ".", "c", "o", "m", "/", "l", "l", "m", "s", ".", "t", "x", "t">>

LinkFacts ==
    { [url |-> urlLlmsA, base |-> <<"a">>, full |-> FALSE, main |-> FALSE],
      [url |-> urlLlmsSdk, base |-> <<"s", "d", "k">>, full |-> FALSE, main |-> FALSE],
      [url |-> urlLlmsSdkFull, base |-> <<"s", "d", "k">>, full |-> TRUE, main |-> FALSE],
      [url |-> urlLlmsMain, base |-> <<>>, full |-> FALSE, main |-> TRUE] }

LinksOfPiece(piece) ==
    IF piece = secLinkOnly THEN {urlLlmsA}
    ELSE IF piece = secLinks THEN {urlLlmsSdk, urlLlmsSdkFull, urlLlmsMain}
    ELSE {}

\* The facts of the URLs written in the text the server answered with.
ServedLinks ==
    {f \in LinkFacts :
       \E k \in 1..Len(served.sections) : f.url \in LinksOfPiece(served.sections[k])}

\* The web handler has run detectLinkedLlmsTxtFiles on the primary text.
Detected == impl = "route" /\ xpc \in {"linked", "done"} /\ rawContent # <<>>

\* C24: of the llms*.txt URLs found in the primary text, the links retained
\* are URLs of the text, no two of them of the same base name; every base
\* name of a URL other than the main llms.txt has its retained link, which
\* is a -full variant when the URLs of that base name include one; and no
\* retained URL ends in /llms.txt.
C24_OnePerBaseNamePreferFull ==
    Detected =>
      /\ \A i, j \in 1..Len(linked) :
            linked[i].baseKey = linked[j].baseKey => i = j
      /\ \A k \in 1..Len(linked) :
            /\ \E f \in ServedLinks : f.url = linked[k].url /\ ~f.main
            /\ ~EndsWith(linked[k].url, strSlashLlmsTxt)
      /\ \A f \in ServedLinks :
            ~f.main =>
              \E k \in 1..Len(linked) :
                 /\ linked[k].baseKey = f.base
                 /\ \E g \in ServedLinks : g.url = linked[k].url /\ g.base = f.base
                 /\ (\E g \in ServedLinks : g.base = f.base /\ g.full)
                      => \E g \in ServedLinks : g.url = linked[k].url /\ g.full

\* A text that lists llms-sdk.txt before llms-sdk-full.txt, the main
\* llms.txt and a file of another base name: two links are retained, the
\* -full one of sdk among them.
C24_Witness ==
    /\ Detected
    /\ Cardinality(ServedLinks) = 4
    /\ Len(linked) = 2
    /\ \E k \in 1..Len(linked) : linked[k].url = urlLlmsSdkFull

(***************************************************************************)
(* parseSitemap(sitemapUrl, depth) called on its own: the recursion over   *)
(* sitemap indexes.  The web is fixed when the call starts; a sitemap URL  *)
(* answers with a failure, a non-OK status, or a text that is an index     *)
(* (it holds '<sitemapindex') or not and lists some <loc> entries.         *)
(***************************************************************************)
\* if (depth > 2) return urls
MaxSitemapDepth == 2

\* The most <loc> entries a sitemap of the model lists.
MaxLocs == 2

smIndexUrl == <<"https:", "/", "/", "example", ".", "com", "/", "sitemap.xml">>
smPagesUrl ==
    <<"https:", "/", "/", "example", ".", "com", "/", "docs", "/", "sitemap-pages.xml">>
smPageUrl == <<"https:", "/", "/", "example", ".", "com", "/", "docs", "/", "intro">>

SitemapAddresses == {smIndexUrl, smPagesUrl}
LocUrls == {smIndexUrl, smPagesUrl, smPageUrl}
LocLists == UNION {[1..n -> LocUrls] : n \in 0..MaxLocs}

SitemapResponses ==
    { [kind |-> "throws", index |-> FALSE, locs |-> <<>>],
      [kind |-> "not_ok", index |-> FALSE, locs |-> <<>>] }
    \cup { [kind |-> "text", index |-> i, locs |-> l] :
             i \in BOOLEAN, l \in LocLists }

\* Tokens that hold 'sitemap', and tokens that end in '.xml'.
SitemapTokens == {"sitemap.xml", "sitemap-pages.xml"}
XmlTokens == {"sitemap.xml", "sitemap-pages.xml"}

\* nestedUrl.includes('sitemap') && nestedUrl.endsWith('.xml')
IsNestedSitemap(u) ==
    /\ \E k \in 1..Len(u) : u[k] \in SitemapTokens
    /\ u # <<>> /\ u[Len(u)] \in XmlTokens

\* /docs?|api|developer|reference|guide|help/i.test(pathParts[i])
DocsPartTokens == {"docs", "Docs", "api"}

\* /docs?|api|developer|reference|guide|help|getting-started|quickstart/i.test(url)
LooksLikeDocs(u) ==
    \E k \in 1..Len(u) : u[k] \in DocsPartTokens \cup {"getting-started", "quickstart"}

\* urlObj.pathname.split('/').filter(Boolean)
PathPartsOf(u) ==
    Call(LAMBDA rest :
           SelectSeq(SubSeq(rest, Len(TakeHost(rest)) + 1, Len(rest)),
                     LAMBDA t : t # "/"),
         DropSlashes(Tail(u)))

\* parts.join('/')
RECURSIVE JoinSlashes(_)
JoinSlashes(ps) ==
    IF ps = <<>> THEN <<>>
    ELSE IF Len(ps) = 1 THEN ps
    ELSE <<ps[1], "/">> \o JoinSlashes(Tail(ps))

\* The docs root pushed for the first path part that names documentation.
DocsRootFrom(urlObj, parts) ==
    IF \E i \in 1..Len(parts) : parts[i] \in DocsPartTokens
    THEN << Cand(Origin(urlObj.protocol, urlObj.hostname) \o <<"/">>
                   \o JoinSlashes(SubSeq(parts, 1,
                        MinOf({i \in 1..Len(parts) : parts[i] \in DocsPartTokens}))),
                 20, "sitemap-docs") >>
    ELSE <<>>

\* The body of the second loop for one <loc>; new URL(url) throwing is
\* caught and the entry skipped.
DocsRootOf(u) ==
    IF ~LooksLikeDocs(u) THEN <<>>
    ELSE IF ~NewURL(u).ok THEN <<>>
    ELSE DocsRootFrom(NewURL(u), PathPartsOf(u))

RECURSIVE DocCandidates(_)
DocCandidates(locs) ==
    IF locs = <<>> THEN <<>>
    ELSE DocsRootOf(Head(locs)) \o DocCandidates(Tail(locs))

\* The guard one level too late.
DepthExceededLate(depth) == depth > MaxSitemapDepth + 1

\* if (depth > 2) return urls
DepthExceeded(depth) == depth > MaxSitemapDepth

\* An activation of parseSitemap: at "entry" before its fetch, at "index"
\* inside the loop over the entries of a sitemap index.
SitemapFrame(u, d) ==
    [url |-> u, depth |-> d, at |-> "entry", locs |-> <<>>, next |-> 1,
     urls |-> <<>>]

SitemapInit ==
    /\ DiscoverIdle
    /\ InstallIdle
    /\ UtilIdle
    /\ ExtractIdle
    /\ SitemapRestIdle
    /\ smWeb \in [SitemapAddresses -> SitemapResponses]
    /\ smStack = << SitemapFrame(smIndexUrl, 0) >>
    /\ smFetched = <<>>
    /\ smResult = [kind |-> "pending", urls |-> <<>>]

SitemapTop == smStack[Len(smStack)]

\* return urls: to the awaiting caller, which pushes them and goes on with
\* its next entry, or out of the outermost call.
SitemapReturn(us) ==
    IF Len(smStack) = 1
    THEN /\ smStack' = <<>>
         /\ smResult' = [kind |-> "returned", urls |-> us]
    ELSE /\ smStack' =
               Append(SubSeq(smStack, 1, Len(smStack) - 2),
                      [smStack[Len(smStack) - 1] EXCEPT
                         !.urls = @ \o us, !.next = @ + 1])
         /\ UNCHANGED smResult

\* The head of parseSitemap up to the test for a sitemap index: the depth
\* guard, the fetch, and what its outcome leads to.  A failure of the fetch
\* or of response.text() lands in the outer catch, which falls through to
\* return urls.
SitemapEnter ==
    /\ smStack # <<>>
    /\ SitemapTop.at = "entry"
    /\ IF DepthExceeded(SitemapTop.depth)
       THEN /\ SitemapReturn(<<>>)
            /\ UNCHANGED smFetched
       ELSE /\ smFetched' = Append(smFetched,
                                   [url |-> SitemapTop.url, depth |-> SitemapTop.depth])
            /\ \E r \in {smWeb[SitemapTop.url]} :
                 IF r.kind # "text" THEN SitemapReturn(<<>>)
                 ELSE IF r.index
                 THEN /\ smStack' = [smStack EXCEPT ![Len(smStack)] =
                                       [@ EXCEPT !.at = "index", !.locs = r.locs]]
                      /\ UNCHANGED smResult
                 ELSE SitemapReturn(DocCandidates(r.locs))
    /\ UNCHANGED <<smWeb, smOthers>>

\* One pass of the loop over the entries of a sitemap index: a nested
\* sitemap is parsed one level deeper and awaited, another entry is skipped.
SitemapNested ==
    /\ smStack # <<>>
    /\ SitemapTop.at = "index"
    /\ SitemapTop.next <= Len(SitemapTop.locs)
    /\ IF IsNestedSitemap(SitemapTop.locs[SitemapTop.next])
       THEN smStack' = Append(smStack,
                              SitemapFrame(SitemapTop.locs[SitemapTop.next],
                                           SitemapTop.depth + 1))
       ELSE smStack' = [smStack EXCEPT ![Len(smStack)] =
                          [@ EXCEPT !.next = @ + 1]]
    /\ UNCHANGED <<smWeb, smFetched, smResult, smOthers>>

\* After the last entry of an index: the loop over all <loc> entries, then
\* return urls.
SitemapFinish ==
    /\ smStack # <<>>
    /\ SitemapTop.at = "index"
    /\ SitemapTop.next > Len(SitemapTop.locs)
    /\ SitemapReturn(SitemapTop.urls \o DocCandidates(SitemapTop.locs))
    /\ UNCHANGED <<smWeb, smFetched, smOthers>>

SitemapNext == SitemapEnter \/ SitemapNested \/ SitemapFinish

\* Every awaited fetch settles (fetchWithTimeout aborts it otherwise) and
\* the continuation of a settled await is run.
SitemapSpec == SitemapInit /\ [][SitemapNext]_vars /\ WF_vars(SitemapNext)

\* The sitemap the call started on, and whether an address listed in an
\* index leads back to an address already under parse.
SitemapFailed(u) == smWeb[u].kind # "text"

SitemapListsItself(u) ==
    /\ smWeb[u].kind = "text" /\ smWeb[u].index
    /\ u \in Range(smWeb[u].locs)

\* C23: parseSitemap fetches no sitemap at a nesting depth above 2, the
\* call returns for every web (an index that lists itself or two indexes
\* that list each other included), it never ends by raising, and a sitemap
\* whose fetch fails or is not OK contributes no candidate: the outermost
\* call then returns the empty list, a nested one leaves its caller's list
\* as it was.
C23_DepthBoundedAndTerminates ==
    /\ [](\A k \in 1..Len(smFetched) : smFetched[k].depth <= MaxSitemapDepth)
    /\ <>(smResult.kind = "returned")
    /\ [](smResult.kind \in {"pending", "returned"})
    /\ [](smResult.kind = "returned" /\ SitemapFailed(smIndexUrl)
            => smResult.urls = <<>>)
    /\ [][ (/\ Len(smStack) >= 2
            /\ SitemapTop.at = "entry"
            /\ ~DepthExceeded(SitemapTop.depth)
            /\ SitemapFailed(SitemapTop.url))
           => /\ Len(smStack') = Len(smStack) - 1
              /\ smStack'[Len(smStack')].urls = smStack[Len(smStack) - 1].urls ]_vars

\* The call on an index that lists itself has returned after fetching it at
\* depths 0, 1 and 2.
C23_Witness ==
    /\ smResult.kind = "returned"
    /\ SitemapListsItself(smIndexUrl)
    /\ {smFetched[k].depth : k \in 1..Len(smFetched)} = 0..MaxSitemapDepth
    /\ \E k \in 1..Len(smFetched) : SitemapFailed(smFetched[k].url)

(***************************************************************************)
(* fetchAllLinkedLlmsTxt(files) called on its own, with the fetches of a   *)
(* batch settling one at a time and in any order.                          *)
(***************************************************************************)
\* const MAX_CONCURRENT = 5
MaxConcurrent == 5

\* The most linked files the call is given.
MaxLinked == 6

urlLinkedB ==
    <<"h", "t", "t", "p", ":", "/", "/", "h", "/", "l", "l", "m", "s", "-",
      "b", ".", "t", "x", "t">>
urlLinkedC ==
    <<"h", "t", "t", "p", ":", "/", "/", "h", "/", "l", "l", "m", "s", "-",
      "c", ".", "t", "x", "t">>
urlLinkedD ==
    <<"h", "t", "t", "p", ":", "/", "/", "h", "/", "l", "l", "m", "s", "-",
      "d", ".", "t", "x", "t">>
urlLinkedE ==
    <<"h", "t", "t", "p", ":", "/", "/", "h", "/", "l", "l", "m", "s", "-",
      "e", ".", "t", "x", "t">>
urlLinkedF ==
    <<"h", "t", "t", "p", ":", "/", "/", "h", "/", "l", "l", "m", "s", "-",
      "f", ".", "t", "x", "t">>
urlLinkedG ==
    <<"h", "t", "t", "p", ":", "/", "/", "h", "/", "l", "l", "m", "s", "-",
      "g", ".", "t", "x", "t">>
urlLinkedH ==
    <<"h", "t", "t", "p", ":", "/", "/", "h", "/", "l", "l", "m", "s", "-",
      "h", ".", "t", "x", "t">>

LinkedUrls ==
    <<urlLlmsA, urlLinkedB, urlLinkedC, urlLinkedD, urlLinkedE, urlLinkedF,
      urlLinkedG, urlLinkedH>>

\* What the fetch of a linked file comes to: fetch or response.text()
\* throws, a status that is not OK, or a body.
LinkedOutcomes ==
    { [kind |-> "throws", body |-> <<>>], [kind |-> "not_ok", body |-> <<>>] }
    \cup { [kind |-> "ok", body |-> b] : b \in LinkedBodies }

\* The promise of fetchLinkedLlmsTxt(file) once its fetch has come to the
\* outcome: the catch logs the error and the file is returned as it was.
fetchLinkedLlmsTxt(file, outcome) ==
    [st |-> "fulfilled",
     file |-> IF outcome.kind = "ok" THEN [file EXCEPT !.content = outcome.body]
              ELSE file]

\* files.slice(i, i + MAX_CONCURRENT)
LinkedBatch(files, i) == Slice(files, i, i + MaxConcurrent)

LinkedInit ==
    /\ DiscoverIdle
    /\ InstallIdle
    /\ UtilIdle
    /\ ExtractIdle
    /\ LinkedRestIdle
    /\ lfFiles \in {[k \in 1..n |-> LinkedFile(LinkedUrls[k])] : n \in 1..MaxLinked}
    /\ lfI = 0
    /\ lfBatch = <<>>
    /\ lfResults = <<>>
    /\ lfDocuments = <<>>
    /\ lfpc = "loop"

\* The loop head with files left: batch.map(fetchLinkedLlmsTxt) starts the
\* fetch of every file of the batch.
LinkedBatchStart ==
    /\ lfpc = "loop"
    /\ lfI < Len(lfFiles)
    /\ \E files \in {LinkedBatch(lfFiles, lfI)} :
         lfBatch' = [k \in 1..Len(files) |-> [st |-> "pending", file |-> files[k]]]
    /\ lfpc' = "await"
    /\ UNCHANGED <<lfFiles, lfI, lfResults, lfDocuments, lfOthers>>

\* One fetch of the batch settles.
LinkedSettle ==
    /\ lfpc = "await"
    /\ \E k \in 1..Len(lfBatch), outcome \in LinkedOutcomes :
         /\ lfBatch[k].st = "pending"
         /\ lfBatch' = [lfBatch EXCEPT ![k] = fetchLinkedLlmsTxt(lfBatch[k].file, outcome)]
    /\ UNCHANGED <<lfFiles, lfI, lfResults, lfDocuments, lfpc, lfOthers>>

\* await Promise.all(...) resumes: with the values in the order of the
\* batch when every promise is fulfilled, with a throw as soon as one is
\* rejected (the handler's catch then answers 500).
LinkedJoin ==
    /\ lfpc = "await"
    /\ IF \E k \in 1..Len(lfBatch) : lfBatch[k].st = "rejected"
       THEN /\ lfpc' = "failed"
            /\ UNCHANGED <<lfI, lfResults>>
       ELSE /\ \A k \in 1..Len(lfBatch) : lfBatch[k].st = "fulfilled"
            /\ lfResults' = lfResults \o [k \in 1..Len(lfBatch) |-> lfBatch[k].file]
            /\ lfI' = lfI + MaxConcurrent
            /\ lfpc' = "loop"
    /\ UNCHANGED <<lfFiles, lfBatch, lfDocuments, lfOthers>>

\* The loop is over: return results, and the handler pushes the documents
\* of the linked files.
LinkedReturn ==
    /\ lfpc = "loop"
    /\ lfI >= Len(lfFiles)
    /\ lfDocuments' = AllLinkedDocumentsFrom(lfResults, 1, 0)
    /\ lfpc' = "done"
    /\ UNCHANGED <<lfFiles, lfI, lfBatch, lfResults, lfOthers>>

LinkedNext == LinkedBatchStart \/ LinkedSettle \/ LinkedJoin \/ LinkedReturn

LinkedSpec == LinkedInit /\ [][LinkedNext]_vars

LinkedInFlight == {k \in 1..Len(lfBatch) : lfBatch[k].st = "pending"}

DocumentsFrom(url) ==
    {k \in 1..Len(lfDocuments) : lfDocuments[k].sourceUrl = url}

\* C25: fetchAllLinkedLlmsTxt has at most MAX_CONCURRENT fetches in flight;
\* it returns one entry per input link, in input order; an entry whose
\* fetch failed or was not OK has no content and no document comes from
\* it; and a failing fetch neither touches the other fetches of the batch
\* nor makes the call fail.
C25_BoundedFetchesOneEntryPerLink ==
    /\ [](Cardinality(LinkedInFlight) <= MaxConcurrent)
    /\ [](lfpc # "failed")
    /\ [](lfpc = "done" =>
            /\ Len(lfResults) = Len(lfFiles)
            /\ \A k \in 1..Len(lfFiles) :
                  /\ lfResults[k].url = lfFiles[k].url
                  /\ lfResults[k].content = <<>> => DocumentsFrom(lfFiles[k].url) = {}
                  /\ lfResults[k].content # <<>> => DocumentsFrom(lfFiles[k].url) # {})
    /\ [][lfpc = "await" /\ lfpc' = "await" =>
            /\ Len(lfBatch') = Len(lfBatch)
            /\ \A k \in 1..Len(lfBatch) :
                  /\ lfBatch'[k].file.url = lfBatch[k].file.url
                  /\ lfBatch[k].st = "fulfilled" => lfBatch'[k] = lfBatch[k]]_vars

\* Six links: the first fetch failed, the sixth, alone in the second batch,
\* brought a text.
C25_Witness ==
    /\ lfpc = "done"
    /\ Len(lfFiles) = 6
    /\ lfResults[1].content = <<>>
    /\ lfResults[6].content # <<>>
    /\ DocumentsFrom(lfFiles[6].url) # {}

(***************************************************************************)
(* GET /api/sites/health.  Requests arrive at any time and a handler is    *)
(* suspended while its checks of the sites are awaited; the module-level   *)
(* lastHealthReport and lastHealthCheckTime are shared by all of them.     *)
(* The clock counts ticks.  The rate limiter is outside the sources at     *)
(* hand: whether it allows a request is an input.                          *)
(***************************************************************************)
\* HEALTH_CHECK_COOLDOWN (60 * 1000 ms), in ticks.
HealthCheckCooldown == 2

\* The last tick of the clock and the most requests received.
MaxClock == 3
MaxHealthRequests == 3

\* let lastHealthReport: HealthReport | null = null
NoReport == [by |-> 0, at |-> 0]

\* What a request is: refused by the rate limiter, for one site (known or
\* not), with refresh=true, or with neither parameter.
HealthRequestKinds == {"limited", "unknown-id", "id", "refresh", "plain"}

\* !forceRefresh && lastHealthReport && now - lastHealthCheckTime < HEALTH_CHECK_COOLDOWN
CanReturnCached(forceRefresh, report, now, last) ==
    ~forceRefresh /\ report # NoReport /\ now - last < HealthCheckCooldown

HealthRequest(kind, now, st, answer, report) ==
    [kind |-> kind, now |-> now, st |-> st, answer |-> answer, report |-> report]

HealthInit ==
    /\ DiscoverIdle
    /\ InstallIdle
    /\ UtilIdle
    /\ ExtractIdle
    /\ HealthRestIdle
    /\ hNow = 0
    /\ lastHealthReport = NoReport
    /\ lastHealthCheckTime = 0
    /\ hRequests = <<>>
    /\ hStarted = <<>>

HealthTick ==
    /\ hNow < MaxClock
    /\ hNow' = hNow + 1
    /\ UNCHANGED <<lastHealthReport, lastHealthCheckTime, hRequests, hStarted,
                   healthOthers>>

\* GET up to its first await or its return.
HealthGet ==
    /\ Len(hRequests) < MaxHealthRequests
    /\ \E kind \in HealthRequestKinds :
         IF kind = "limited"
         THEN /\ hRequests' = Append(hRequests,
                                     HealthRequest(kind, hNow, "answered", "429", NoReport))
              /\ UNCHANGED hStarted
         ELSE IF kind = "unknown-id"
         THEN /\ hRequests' = Append(hRequests,
                                     HealthRequest(kind, hNow, "answered", "404", NoReport))
              /\ UNCHANGED hStarted
         ELSE IF kind = "id"
         THEN /\ hRequests' = Append(hRequests,
                                     HealthRequest(kind, hNow, "checking-site", "none", NoReport))
              /\ UNCHANGED hStarted
         ELSE IF CanReturnCached(kind = "refresh", lastHealthReport, hNow,
                                 lastHealthCheckTime)
         THEN /\ hRequests' = Append(hRequests,
                                     HealthRequest(kind, hNow, "answered", "cached",
                                                   lastHealthReport))
              /\ UNCHANGED hStarted
         ELSE /\ hRequests' = Append(hRequests,
                                     HealthRequest(kind, hNow, "checking", "none", NoReport))
              /\ hStarted' = Append(hStarted, [by |-> Len(hRequests) + 1, at |-> hNow])
    /\ UNCHANGED <<hNow, lastHealthReport, lastHealthCheckTime, healthOthers>>

\* checkSiteHealth(site) of a request for one site has settled.
HealthSiteDone ==
    /\ \E r \in 1..Len(hRequests) :
         /\ hRequests[r].st = "checking-site"
         /\ hRequests' = [hRequests EXCEPT ![r] =
                            [@ EXCEPT !.st = "answered", !.answer = "site"]]
    /\ UNCHANGED <<hNow, lastHealthReport, lastHealthCheckTime, hStarted, healthOthers>>

\* Promise.all of a full check has settled: the report is built and stored
\* with the time the request read before the check.
HealthFullDone ==
    /\ \E r \in 1..Len(hRequests) :
         /\ hRequests[r].st = "checking"
         /\ lastHealthReport' = [by |-> r, at |-> hNow]
         /\ lastHealthCheckTime' = hRequests[r].now
         /\ hRequests' = [hRequests EXCEPT ![r] =
                            [@ EXCEPT !.st = "answered", !.answer = "report",
                                      !.report = [by |-> r, at |-> hNow]]]
    /\ UNCHANGED <<hNow, hStarted, healthOthers>>

HealthNext == HealthTick \/ HealthGet \/ HealthSiteDone \/ HealthFullDone

HealthSpec == HealthInit /\ [][HealthNext]_vars

\* Only requests without refresh=true and without id were received and
\* allowed.
OnlyPlainRequests == \A r \in 1..Len(hRequests) : hRequests[r].kind = "plain"

\* C26: when only GET requests without refresh=true and without id are
\* received, two full checks are never started less than
\* HEALTH_CHECK_COOLDOWN apart, and a request that arrives less than
\* HEALTH_CHECK_COOLDOWN after a full check was started is answered from
\* the stored report, marked cached.
C26_OneFullCheckPerCooldown ==
    OnlyPlainRequests =>
      /\ \A i, j \in 1..Len(hStarted) :
            i < j => hStarted[j].at - hStarted[i].at >= HealthCheckCooldown
      /\ \A i \in 1..Len(hStarted), r \in 1..Len(hRequests) :
            ( /\ hStarted[i].by < r
              /\ hRequests[r].now - hStarted[i].at < HealthCheckCooldown )
            => hRequests[r].answer = "cached" /\ hRequests[r].report # NoReport

(***************************************************************************)
(* /api/sites/verify, GET and POST.  A job is one target of a request from *)
(* its cache lookup on; a verification is awaited, and the module-level    *)
(* verificationCache is shared by all requests.  The result of job j is    *)
(* written j.  The rate limiter is an input, as for the health endpoint.   *)
(***************************************************************************)
\* CACHE_TTL_MS (5 minutes by default), in ticks.
CacheTtl == 1

\* The clock runs until an entry written at the first tick has expired.
VerifyClockEnd == CacheTtl + 1

\* The most targets looked up.
MaxVerifyJobs == 3

VerifyKeys == {"https://a.example", "https://b.example"}

\* verificationCache.get(key) is undefined.
NoEntry == [result |-> 0, timestamp |-> 0]

\* The test with <= in place of <.
IsFreshInclusive(entry, now) ==
    entry # NoEntry /\ now - entry.timestamp <= CacheTtl

\* cached && Date.now() - cached.timestamp < CACHE_TTL_MS
IsFresh(entry, now) ==
    entry # NoEntry /\ now - entry.timestamp < CacheTtl

\* One target from the cache lookup to the first await or the answer.
\* seen is what the cache held for the key at that moment.
VerifyJob(key, noCache) ==
    IF ~noCache /\ IsFresh(verificationCache[key], vNow)
    THEN [key |-> key, noCache |-> noCache, at |-> vNow,
          seen |-> verificationCache[key], st |-> "cached",
          served |-> verificationCache[key].result]
    ELSE [key |-> key, noCache |-> noCache, at |-> vNow,
          seen |-> verificationCache[key], st |-> "verifying", served |-> 0]

\* A request answered before any lookup (429; 400 and 404 go the same way).
RefusedJob(status) ==
    [key |-> "", noCache |-> FALSE, at |-> vNow, seen |-> NoEntry,
     st |-> "refused", served |-> status]

VerifyInit ==
    /\ DiscoverIdle
    /\ InstallIdle
    /\ UtilIdle
    /\ ExtractIdle
    /\ VerifyRestIdle
    /\ vNow = 0
    /\ verificationCache = [k \in VerifyKeys |-> NoEntry]
    /\ vJobs = <<>>
    /\ vFetched = {}

VerifyTick ==
    /\ vNow < VerifyClockEnd
    /\ vNow' = vNow + 1
    /\ UNCHANGED <<verificationCache, vJobs, vFetched, verifyOthers>>

Verifying(jobs, from) ==
    {from + k : k \in {k \in 1..Len(jobs) : jobs[k].st = "verifying"}}

\* GET /api/sites/verify up to its first await or its return.
VerifyGet ==
    /\ Len(vJobs) < MaxVerifyJobs
    /\ \E status \in {200, 429}, key \in VerifyKeys, noCache \in BOOLEAN :
         \E job \in {IF status = 200 THEN VerifyJob(key, noCache)
                      ELSE RefusedJob(status)} :
           /\ vJobs' = Append(vJobs, job)
           /\ vFetched' = vFetched \cup Verifying(<<job>>, Len(vJobs))
    /\ UNCHANGED <<vNow, verificationCache, verifyOthers>>

\* POST /api/sites/verify with two targets, up to the await of Promise.all:
\* each target runs to its own first await in turn.
VerifyPost ==
    /\ Len(vJobs) + 2 <= MaxVerifyJobs
    /\ \E k1 \in VerifyKeys, k2 \in VerifyKeys, noCache \in BOOLEAN :
         \E jobs \in {<<VerifyJob(k1, noCache),
                         VerifyJob(k2, noCache)>>} :
           /\ vJobs' = vJobs \o jobs
           /\ vFetched' = vFetched \cup Verifying(jobs, Len(vJobs))
    /\ UNCHANGED <<vNow, verificationCache, verifyOthers>>

\* verifySite(target) has settled: the result is stored with Date.now().
VerifyDone ==
    /\ \E j \in 1..Len(vJobs) :
         /\ vJobs[j].st = "verifying"
         /\ vJobs' = [vJobs EXCEPT ![j] = [@ EXCEPT !.st = "verified", !.served = j]]
         /\ verificationCache' =
               [verificationCache EXCEPT ![vJobs[j].key] =
                  [result |-> j, timestamp |-> vNow]]
    /\ UNCHANGED <<vNow, vFetched, verifyOthers>>

VerifyNext == VerifyTick \/ VerifyGet \/ VerifyPost \/ VerifyDone

VerifySpec == VerifyInit /\ [][VerifyNext]_vars

\* The entry the job found is younger than CACHE_TTL_MS.
SawFresh(j) ==
    vJobs[j].seen # NoEntry /\ vJobs[j].at - vJobs[j].seen.timestamp < CacheTtl

Looked == {j \in 1..Len(vJobs) : vJobs[j].st # "refused"}

\* C27: a target is answered from the cache, with the stored result and
\* without a verification over the network, exactly when nocache is not set
\* and the cache holds an entry for it whose age is strictly below
\* CACHE_TTL_MS; every other target is verified, and when its verification
\* settles the entry of its key is replaced by that result stamped with the
\* current time.
C27_CacheServesFreshEntriesOnly ==
    /\ [](\A j \in Looked :
            /\ vJobs[j].st = "cached" <=> (SawFresh(j) /\ ~vJobs[j].noCache)
            /\ vJobs[j].st = "cached" =>
                  /\ vJobs[j].served = vJobs[j].seen.result
                  /\ j \notin vFetched
            /\ vJobs[j].st # "cached" => j \in vFetched
            /\ vJobs[j].st = "verified" => vJobs[j].served = j)
    /\ [][\A j \in Looked :
            (vJobs[j].st = "verifying" /\ vJobs'[j].st = "verified")
              => verificationCache'[vJobs[j].key] = [result |-> j, timestamp |-> vNow]]_vars

\* One target was answered from the cache, and a later target of the same
\* key found the entry expired and was verified again.
C27_Witness ==
    \E i, j \in Looked :
       /\ vJobs[i].key = vJobs[j].key
       /\ vJobs[i].st = "cached"
       /\ vJobs[j].st = "verified"
       /\ ~vJobs[j].noCache
       /\ vJobs[j].seen # NoEntry
       /\ vJobs[j].at - vJobs[j].seen.timestamp = CacheTtl
       /\ verificationCache[vJobs[j].key].result = j

(***************************************************************************)
(* useSiteVerification(site) for one site.  verify() runs to its first     *)
(* await; a request is then suspended on fetch and, after an OK response,  *)
(* on response.json().  Aborting a controller rejects the await its        *)
(* request is suspended on with an AbortError.  The result of request r is *)
(* written r; an entry of clientCache is fresh while its age is below      *)
(* cacheTtl.                                                               *)
(***************************************************************************)
\* The most network verifications started.
MaxHookRequests == 3

HookSuccess(r) == [status |-> "success", result |-> r, error |-> 0]

HookError(r) == [status |-> "error", result |-> 0, error |-> r]

HookRequest(noCache) == [noCache |-> noCache, st |-> "fetch", aborted |-> FALSE]

Live(rs) == {r \in 1..Len(rs) : rs[r].st # "settled"}

\* No abort of the pending request.
KeepPending(rs, ref) == rs

\* if (abortControllerRef.current) abortControllerRef.current.abort()
AbortPending(rs, ref) ==
    IF ref \in Live(rs) THEN [rs EXCEPT ![ref].aborted = TRUE]
    ELSE rs

HookInit ==
    /\ DiscoverIdle
    /\ InstallIdle
    /\ UtilIdle
    /\ ExtractIdle
    /\ HookRestIdle
    /\ hookState = [status |-> "idle", result |-> 0, error |-> 0]
    /\ clientCache = [result |-> 0, fresh |-> FALSE]
    /\ abortControllerRef = 0
    /\ hkRequests = <<>>

\* verify(noCache) up to its first await or its return: auto-verify and
\* verify() pass false, refresh() and the polling timer pass true.
HookVerify ==
    /\ \E noCache \in BOOLEAN :
         IF ~noCache /\ clientCache.fresh
         THEN /\ hookState' = HookSuccess(clientCache.result)
              /\ UNCHANGED <<abortControllerRef, hkRequests>>
         ELSE /\ Len(hkRequests) < MaxHookRequests
              /\ hkRequests' = Append(AbortPending(hkRequests, abortControllerRef),
                                      HookRequest(noCache))
              /\ abortControllerRef' = Len(hkRequests) + 1
              /\ hookState' = [hookState EXCEPT !.status = "loading"]
    /\ UNCHANGED <<clientCache, hookOthers>>

\* await fetch(...) of a request settles: an OK response, a response that
\* is not OK (the handler throws) or a rejection.
HookFetchSettles ==
    /\ \E r \in Live(hkRequests), ok \in BOOLEAN :
         /\ hkRequests[r].st = "fetch"
         /\ ~hkRequests[r].aborted
         /\ IF ok
            THEN /\ hkRequests' = [hkRequests EXCEPT ![r].st = "json"]
                 /\ UNCHANGED hookState
            ELSE /\ hkRequests' = [hkRequests EXCEPT ![r].st = "settled"]
                 /\ hookState' = HookError(r)
    /\ UNCHANGED <<clientCache, abortControllerRef, hookOthers>>

\* await response.json() of a request settles.
HookJsonSettles ==
    /\ \E r \in Live(hkRequests), ok \in BOOLEAN :
         /\ hkRequests[r].st = "json"
         /\ ~hkRequests[r].aborted
         /\ hkRequests' = [hkRequests EXCEPT ![r].st = "settled"]
         /\ IF ok
            THEN /\ clientCache' = [result |-> r, fresh |-> TRUE]
                 /\ hookState' = HookSuccess(r)
            ELSE /\ hookState' = HookError(r)
                 /\ UNCHANGED clientCache
    /\ UNCHANGED <<abortControllerRef, hookOthers>>

\* The await of an aborted request rejects with an AbortError: the catch
\* returns.
HookAbortCaught ==
    /\ \E r \in Live(hkRequests) :
         /\ hkRequests[r].aborted
         /\ hkRequests' = [hkRequests EXCEPT ![r].st = "settled"]
    /\ UNCHANGED <<hookState, clientCache, abortControllerRef, hookOthers>>

\* The entry of clientCache reaches the age cacheTtl.
HookCacheExpires ==
    /\ clientCache.fresh
    /\ clientCache' = [clientCache EXCEPT !.fresh = FALSE]
    /\ UNCHANGED <<hookState, abortControllerRef, hkRequests, hookOthers>>

\* The cleanup of the auto-verify effect, while a request is pending.
HookCleanup ==
    /\ abortControllerRef \in Live(hkRequests)
    /\ ~hkRequests[abortControllerRef].aborted
    /\ hkRequests' = AbortPending(hkRequests, abortControllerRef)
    /\ UNCHANGED <<hookState, clientCache, abortControllerRef, hookOthers>>

HookNext ==
    \/ HookVerify \/ HookFetchSettles \/ HookJsonSettles \/ HookAbortCaught
    \/ HookCacheExpires \/ HookCleanup

HookSpec == HookInit /\ [][HookNext]_vars

\* Request r settles in this step.
Settles(r) ==
    /\ r \in Live(hkRequests)
    /\ Len(hkRequests') = Len(hkRequests)
    /\ hkRequests'[r].st = "settled"

\* C30: every request but the most recently started one is settled or
\* aborted; the settling of a request that is not the most recently started
\* one, or that was aborted, changes neither the hook state nor the cache;
\* and when the most recently started request settles without having been
\* aborted, the hook state is that of its response or failure.
C30_OnlyLatestRequestUpdatesState ==
    /\ [](\A r \in Live(hkRequests) :
            r < Len(hkRequests) => hkRequests[r].aborted)
    /\ [][\A r \in 1..Len(hkRequests) :
            Settles(r) =>
              /\ (r < Len(hkRequests) \/ hkRequests[r].aborted)
                    => (hookState' = hookState /\ clientCache' = clientCache)
              /\ (r = Len(hkRequests) /\ ~hkRequests[r].aborted)
                    => hookState' \in {HookSuccess(r), HookError(r)}]_vars

\* Two requests: the first was aborted and has settled, and the hook and
\* the cache hold the result of the second.
C30_Witness ==
    /\ Len(hkRequests) = 2
    /\ Live(hkRequests) = {}
    /\ hkRequests[1].aborted
    /\ hookState = HookSuccess(2)
    /\ clientCache.result = 2

====
